---- MODULE Spec2Model ----
(***************************************************************************)
(* Cloud-Storage-Back-End: the record / collection / trash lifecycle of    *)
(* the Flask handlers over the MongoDB collections Files, collections and  *)
(* TrashBin.                                                               *)
(*                                                                         *)
(* A handler is a chain of steps; a step is one round trip to the database *)
(* together with the handler's local computation up to its next round      *)
(* trip.  A step is an operator from the database and the request's locals *)
(* to the set of outcomes it may have.  Spec serves requests one at a      *)
(* time, each handler running all its steps in one action; SpecSteps       *)
(* interleaves the steps of two requests in flight.                        *)
(*                                                                         *)
(* Documents are records whose DOMAIN is the set of fields present.        *)
(* Timestamps (upload_date, deleted_at, updated_at) are left out: no       *)
(* handler modelled here reads one back.                                   *)
(***************************************************************************)
EXTENDS Integers, Sequences, FiniteSets, TLC

\* ------------------------------------------------------------------ bounds
\* ObjectIds the database mints over a run (Files, collections, TrashBin).
MaxIds == 3
\* The largest number N a suggested name(N).ext may carry.
MaxNum == 2
\* How far, in GB, a storage limit may grow over the default.
MaxGrowth == 4

\* ------------------------------------------------------------------ inputs
Owners == {"o1", "o2"}

\* File names are sequences of one-character strings.
NameATxt == <<"a", ".", "t", "x", "t">>
NameB == <<"b">>
UploadNames == {NameATxt, NameB}
RenameNames == {NameB}

\* Upload bodies: sequences of bytes; the empty upload and one with content.
Payloads == {<<>>, <<"x", "y">>}
Descriptions == {"d"}

\* Collection names as a request carries them: a name, and a blank one.
CollectionNames == {<<"c">>, <<" ">>}

Slots == {1, 2}
\* The owner whose requests are sent in pairs.
StepOwners == {"o1"}

\* ------------------------------------------------------------- identifiers
(* An identifier as a request carries it: the 24 hexadecimal characters of *)
(* ObjectId n written in lower case (str(ObjectId)), the same characters   *)
(* in upper case (also accepted by ObjectId(...)), or a malformed string.  *)
LowerId(n) == [hex |-> n, form |-> "lower"]
UpperId(n) == [hex |-> n, form |-> "upper"]
BadId == [hex |-> 0, form |-> "bad"]

\* bson ObjectId.is_valid: 24 hexadecimal characters of either case.
ValidId(s) == s.form # "bad"
\* ObjectId(s) for a valid s.
ObjectIdOf(s) == s.hex
\* str(ObjectId).
StrOfObjectId(n) == LowerId(n)

\* -------------------------------------------------------------- characters
DigitChars == <<"0", "1", "2", "3", "4", "5", "6", "7", "8", "9">>
IsDigit(c) == \E i \in 1..10 : DigitChars[i] = c
DigitVal(c) == (CHOOSE i \in 1..10 : DigitChars[i] = c) - 1

\* int(text) for a non-empty string of decimal digits.
RECURSIVE ParseInt(_)
ParseInt(s) ==
    IF s = <<>> THEN 0
    ELSE ParseInt(SubSeq(s, 1, Len(s) - 1)) * 10 + DigitVal(s[Len(s)])

\* f"{n}" for n >= 0.
RECURSIVE FormatInt(_)
FormatInt(n) ==
    IF n < 10 THEN <<DigitChars[n + 1]>>
    ELSE FormatInt(n \div 10) \o <<DigitChars[(n % 10) + 1]>>

\* Position of the last "." of s, 0 when there is none ('.' in s is HasDot).
LastDot(s) ==
    LET at == {i \in 1..Len(s) : s[i] = "."}
    IN  IF at = {} THEN 0 ELSE CHOOSE i \in at : \A j \in at : j <= i
HasDot(s) == LastDot(s) # 0

\* name_without_ext, ext = name.rsplit('.', 1); ext = "." + ext
NameWithoutExt(s) == IF HasDot(s) THEN SubSeq(s, 1, LastDot(s) - 1) ELSE s
Ext(s) == IF HasDot(s) THEN SubSeq(s, LastDot(s), Len(s)) ELSE <<>>

\* werkzeug secure_filename: characters outside [A-Za-z0-9_.-] are dropped
\* (blanks become "_"), then "." and "_" are stripped from both ends.
SafeChars ==
    {"a", "b", "t", "x", "p", "n", "g", "A", "B", "T", "X", ".", "_", "-"} \cup {DigitChars[i] : i \in 1..10}
RECURSIVE KeepSafe(_)
KeepSafe(s) ==
    IF s = <<>> THEN <<>>
    ELSE LET c == IF Head(s) = " " THEN "_" ELSE Head(s)
         IN  (IF c \in SafeChars THEN <<c>> ELSE <<>>) \o KeepSafe(Tail(s))
RECURSIVE StripEnds(_)
StripEnds(s) ==
    IF s = <<>> THEN s
    ELSE IF Head(s) \in {".", "_"} THEN StripEnds(Tail(s))
    ELSE IF s[Len(s)] \in {".", "_"} THEN StripEnds(SubSeq(s, 1, Len(s) - 1))
    ELSE s
secure_filename(raw) == StripEnds(KeepSafe(raw))

\* str.strip() of the request's text: blanks removed from both ends.
RECURSIVE Strip(_)
Strip(s) ==
    IF s = <<>> THEN s
    ELSE IF Head(s) = " " THEN Strip(Tail(s))
    ELSE IF s[Len(s)] = " " THEN Strip(SubSeq(s, 1, Len(s) - 1))
    ELSE s

\* str.lower()
LowerChar(c) ==
    CASE c = "A" -> "a" [] c = "B" -> "b" [] c = "T" -> "t" [] c = "X" -> "x" [] OTHER -> c
Lower(s) == [i \in 1..Len(s) |-> LowerChar(s[i])]

\* filename.rsplit('.', 1)[1].lower() if '.' in filename else ''
LowerExtension(filename) ==
    IF HasDot(filename)
    THEN Lower(SubSeq(filename, LastDot(filename) + 1, Len(filename)))
    ELSE <<>>

\* get_file_type: the kind tag from the extension after the last ".".  Of
\* each extension set, the members that the names used here can spell.
IMAGE_EXTENSIONS == {<<"p", "n", "g">>}
VIDEO_EXTENSIONS == {<<"m", "p", "4">>}
DOCUMENT_EXTENSIONS == {<<"t", "x", "t">>}
get_file_type(filename) ==
    LET extension == LowerExtension(filename)
    IN  IF extension \in IMAGE_EXTENSIONS THEN "image"
        ELSE IF extension \in VIDEO_EXTENSIONS THEN "video"
        ELSE IF extension \in DOCUMENT_EXTENSIONS THEN "document"
        ELSE "other"

\* ---------------------------------------------------------- name resolver
(* The $regex ^stem\(\d+\)ext$ of the "similar files" query.               *)
AllDigits(s) == s # <<>> /\ \A i \in 1..Len(s) : IsDigit(s[i])
MatchesSimilar(name, stem, ext) ==
    LET n == Len(name)
        a == Len(stem)
        b == Len(ext)
    IN  /\ n >= a + b + 3
        /\ SubSeq(name, 1, a) = stem
        /\ SubSeq(name, n - b + 1, n) = ext
        /\ name[a + 1] = "("
        /\ name[n - b] = ")"
        /\ AllDigits(SubSeq(name, a + 2, n - b - 1))

(* re.search(r'\((\d+)\)', filename): the digits of the leftmost           *)
(* "(digits)" of the name, <<>> when the name holds none.                  *)
ParenGroupAt(name, i) ==
    LET ends == {j \in (i + 2)..Len(name) :
                    /\ name[j] = ")"
                    /\ AllDigits(SubSeq(name, i + 1, j - 1))}
    IN  IF name[i] = "(" /\ ends # {}
        THEN SubSeq(name, i + 1, (CHOOSE j \in ends : \A k \in ends : j <= k) - 1)
        ELSE <<>>
FirstParenGroup(name) ==
    LET at == {i \in 1..Len(name) : ParenGroupAt(name, i) # <<>>}
    IN  IF at = {} THEN <<>>
        ELSE ParenGroupAt(name, CHOOSE i \in at : \A j \in at : i <= j)

\* A variant of HighestNum that counts the similar names instead of taking
\* the largest number among them.
HighestNum_Count(similar) == Cardinality(similar)

\* The "highest_num" loop over the similar files' names.
HighestNum(similar) ==
    LET nums == {ParseInt(FirstParenGroup(nm)) : nm \in {s \in similar : FirstParenGroup(s) # <<>>}}
    IN  IF nums = {} THEN 0 ELSE CHOOSE m \in nums : \A k \in nums : k <= m

\* f"{name_without_ext}({highest_num + 1}){ext}"
SuggestedName(stem, ext, similar) ==
    stem \o <<"(">> \o FormatInt(HighestNum(similar) + 1) \o <<")">> \o ext

\* ------------------------------------------------------------------- state
VARIABLES
    Files,        \* db.Files: ObjectId -> document of an active record
    collections,  \* db.collections: ObjectId -> document of an active collection
    TrashBin,     \* db.TrashBin: ObjectId -> trash document
    Users,        \* db.Users: user -> user document (the storage limit)
    nextId,       \* the next ObjectId insert_one mints
    req           \* per request slot: the handler in flight and its locals,
                  \* or the last response it returned

vars == <<Files, collections, TrashBin, Users, nextId, req>>

\* The database as the steps read and write it.
DB == [Files |-> Files, collections |-> collections, TrashBin |-> TrashBin,
       Users |-> Users, nextId |-> nextId]

\* dict.get(field, default)
Get(doc, field, default) == IF field \in DOMAIN doc THEN doc[field] ELSE default

\* insert_one / delete_one / update_one($set) on one collection.
Inserted(coll, id, doc) == coll @@ (id :> doc)
Deleted(coll, id) == [x \in DOMAIN coll \ {id} |-> coll[x]]
UpdatedSet(coll, id, fields) ==
    IF id \in DOMAIN coll THEN [coll EXCEPT ![id] = fields @@ coll[id]] ELSE coll

\* A finished request keeps its response until the slot serves the next
\* one.  A refusal is the handler, the HTTP status and the message; a success
\* also keeps the request (user, identifier or name sent) and the _id the
\* handler wrote under.
Refusal(r, status, body) ==
    [pc |-> "done", op |-> r.op, status |-> status, body |-> body]
Success(r, status, body, id) ==
    [pc |-> "done", op |-> r.op, status |-> status, body |-> body,
     user_id |-> r.user_id, arg |-> r.arg, wrote |-> id]

\* One outcome of a step: the database and the request's locals after it.
Outcome(db, r) == {[db |-> db, r |-> r]}
\* The request r moved to step pc with the locals given.
At(r, pc, locals) == locals @@ [r EXCEPT !.pc = pc]

\* Names of the user's active records, without the records `except`.
ActiveNames(db, user_id, except) ==
    {db.Files[id].filename :
        id \in {x \in DOMAIN db.Files \ except : db.Files[x].user_id = user_id}}

\* ---------------------------------------------- FileUpload.post (one file)
UploadRequest(user_id, raw, file_data, description) ==
    [pc |-> "up_find", op |-> "upload", user_id |-> user_id, arg |-> raw,
     file_data |-> file_data, description |-> description]

\* The record document insert_one stores.
UploadRecord(r) ==
    [filename |-> r.filename,
     stored_filename |-> <<"uuid", "_">> \o r.filename,
     file_data |-> r.file_data,
     file_type |-> r.file_type,
     file_size |-> Len(r.file_data),
     description |-> r.description,
     user_id |-> r.user_id]

\* secure_filename, get_file_type, and the query for the same name.
UploadFind(db, r) ==
    LET original_filename == secure_filename(r.arg)
        existing_files == original_filename \in ActiveNames(db, r.user_id, {})
    IN  Outcome(db, At(r, IF existing_files THEN "up_similar" ELSE "up_insert",
                       [original |-> original_filename,
                        filename |-> original_filename,
                        file_type |-> get_file_type(original_filename)]))

\* A variant of UploadSimilar that reports the collision with the suggestion
\* instead of applying it, as the rename does without force.
UploadSimilar_Confirm(db, r) ==
    LET name_without_ext == NameWithoutExt(r.original)
        ext == Ext(r.original)
        similar_files == {n \in ActiveNames(db, r.user_id, {}) :
                             MatchesSimilar(n, name_without_ext, ext)}
    IN  Outcome(db, Refusal(r, 409, SuggestedName(name_without_ext, ext, similar_files)))

\* The query for name(N).ext and the next number.
UploadSimilar(db, r) ==
    LET name_without_ext == NameWithoutExt(r.original)
        ext == Ext(r.original)
        similar_files == {n \in ActiveNames(db, r.user_id, {}) :
                             MatchesSimilar(n, name_without_ext, ext)}
    IN  Outcome(db, At(r, "up_insert",
            [filename |-> SuggestedName(name_without_ext, ext, similar_files)]))

\* A variant of UploadInsert that takes the size of the upload off the
\* uploader's storage limit.
UploadInsert_Charge(db, r) ==
    IF Len(r.file_data) = 0 THEN Outcome(db, Refusal(r, 207, "Empty file"))
    ELSE Outcome([db EXCEPT !.Files = Inserted(@, db.nextId, UploadRecord(r)),
                            !.nextId = @ + 1,
                            !.Users = IF r.user_id \in DOMAIN @
                                      THEN [@ EXCEPT ![r.user_id].storage_limit =
                                                @ - Len(r.file_data)]
                                      ELSE @],
                 Success(r, 200, r.filename, db.nextId))

\* The empty-file check and insert_one.
UploadInsert(db, r) ==
    IF Len(r.file_data) = 0 THEN Outcome(db, Refusal(r, 207, "Empty file"))
    ELSE Outcome([db EXCEPT !.Files = Inserted(@, db.nextId, UploadRecord(r)),
                            !.nextId = @ + 1],
                 Success(r, 200, r.filename, db.nextId))

\* ------------------------------------------- FileUpload.post (the batch)
\* The files of one request, each a name and a payload, handled in a loop;
\* i is the file the loop is at, results and errors the lists built so far.
BatchUploadRequest(user_id, files, description) ==
    [pc |-> "ub_check", op |-> "upload_batch", user_id |-> user_id, arg |-> files,
     description |-> description]

\* Each file goes through the steps of the upload of one file, from the
\* first to its outcome (Handle, defined with the steps below).
RECURSIVE Handle(_, _)

\* if not uploaded_files: 400
BatchUploadCheck(db, r) ==
    Outcome(db, IF r.arg = <<>> THEN Refusal(r, 400, "No files provided")
                ELSE At(r, "ub_file", [i |-> 1, results |-> <<>>, errors |-> <<>>]))

\* The list a file's outcome is appended to: results after insert_one,
\* errors after `continue` on an empty payload.
BatchAfterFile(r, u) ==
    [r EXCEPT !.i = @ + 1,
              !.results = IF u.status = 200
                          THEN Append(@, [id |-> StrOfObjectId(u.wrote), filename |-> u.body])
                          ELSE @,
              !.errors = IF u.status = 200 THEN @ ELSE Append(@, u.body)]

\* A variant of BatchUploadFile that leaves the loop at the first file that
\* is not stored.
BatchUploadFile_Stop(db, r) ==
    IF r.i > Len(r.arg)
    THEN Outcome(db, Success(r, IF r.errors = <<>> THEN 200 ELSE 207,
                             [success_count |-> Len(r.results), files |-> r.results,
                              errors |-> r.errors], 0))
    ELSE UNION {Outcome(o.db, IF o.r.status = 200 THEN BatchAfterFile(r, o.r)
                              ELSE [BatchAfterFile(r, o.r) EXCEPT !.i = Len(r.arg) + 1]) :
                   o \in Handle(db, UploadRequest(r.user_id, r.arg[r.i].filename,
                                                  r.arg[r.i].file_data, r.description))}

\* One pass of the loop over uploaded_files, or the response after the last
\* one: 200, or 207 when errors were collected.
BatchUploadFile(db, r) ==
    IF r.i > Len(r.arg)
    THEN Outcome(db, Success(r, IF r.errors = <<>> THEN 200 ELSE 207,
                             [success_count |-> Len(r.results), files |-> r.results,
                              errors |-> r.errors], 0))
    ELSE UNION {Outcome(o.db, BatchAfterFile(r, o.r)) :
                   o \in Handle(db, UploadRequest(r.user_id, r.arg[r.i].filename,
                                                  r.arg[r.i].file_data, r.description))}

\* ------------------------------------------------------ FileDetail.delete
DeleteRequest(user_id, file_id) ==
    [pc |-> "sd_find", op |-> "delete", user_id |-> user_id, arg |-> file_id]

\* The trash document built from the record read.
FileTrashItem(file_record, user_id, file_id) ==
    [filename |-> file_record.filename,
     file_type |-> file_record.file_type,
     file_size |-> file_record.file_size,
     file_path |-> Get(file_record, "file_path", ""),
     description |-> Get(file_record, "description", ""),
     user_id |-> user_id,
     collections |-> Get(file_record, "collections", <<>>),
     stored_filename |-> Get(file_record, "stored_filename", <<>>),
     file_data |-> Get(file_record, "file_data", <<>>),
     type |-> "file",
     original_id |-> file_id]

\* A variant of DeleteFind without the comparison of the record's user_id
\* with the requester.
DeleteFind_AnyUser(db, r) ==
    LET oid == ObjectIdOf(r.arg)
    IN  Outcome(db,
            IF ~ValidId(r.arg) THEN Refusal(r, 500, "InvalidId")
            ELSE IF oid \notin DOMAIN db.Files THEN Refusal(r, 404, "File not found")
            ELSE At(r, "sd_trash", [file_record |-> db.Files[oid]]))

\* find_one by _id and the ownership check.
DeleteFind(db, r) ==
    LET oid == ObjectIdOf(r.arg)
    IN  Outcome(db,
            IF ~ValidId(r.arg) THEN Refusal(r, 500, "InvalidId")
            ELSE IF oid \notin DOMAIN db.Files THEN Refusal(r, 404, "File not found")
            ELSE IF db.Files[oid].user_id # r.user_id THEN Refusal(r, 403, "no permission")
            ELSE At(r, "sd_trash", [file_record |-> db.Files[oid]]))

\* A variant of DeleteTrashInsert with the two writes in the other order: the
\* record leaves Files first, and the trash document is not yet written.
DeleteTrashInsert_RemoveFirst(db, r) ==
    Outcome([db EXCEPT !.Files = Deleted(@, ObjectIdOf(r.arg))],
            [pc |-> "sd_delete", op |-> r.op, user_id |-> r.user_id,
             arg |-> r.arg, trash_id |-> db.nextId])

\* db.TrashBin.insert_one(trash_item)
DeleteTrashInsert(db, r) ==
    Outcome([db EXCEPT !.TrashBin = Inserted(@, db.nextId,
                           FileTrashItem(r.file_record, r.user_id, r.arg)),
                       !.nextId = @ + 1],
            [pc |-> "sd_delete", op |-> r.op, user_id |-> r.user_id,
             arg |-> r.arg, trash_id |-> db.nextId])

\* A variant of DeleteRemove that leaves the record in Files.
DeleteRemove_Keep(db, r) ==
    Outcome(db, Success(r, 200, "File moved to trash", r.trash_id))

\* db.Files.delete_one({'_id': ObjectId(file_id)})
DeleteRemove(db, r) ==
    Outcome([db EXCEPT !.Files = Deleted(@, ObjectIdOf(r.arg))],
            Success(r, 200, "File moved to trash", r.trash_id))

\* -------------------------------------------------------- RestoreFile.post
RestoreRequest(user_id, file_id) ==
    [pc |-> "rs_find", op |-> "restore", user_id |-> user_id, arg |-> file_id]

\* A variant of RestoredFile that reads the description under a key the
\* trash document does not have.
RestoredFile_NoDescription(trash_file, user_id) ==
    [filename |-> trash_file.filename,
     file_type |-> trash_file.file_type,
     file_size |-> trash_file.file_size,
     file_path |-> Get(trash_file, "file_path", ""),
     description |-> Get(trash_file, "desc", ""),
     user_id |-> user_id,
     collections |-> Get(trash_file, "collections", <<>>),
     stored_filename |-> Get(trash_file, "stored_filename", <<>>),
     file_data |-> Get(trash_file, "file_data", <<>>)]

\* The record document rebuilt from the trash document.
RestoredFile(trash_file, user_id) ==
    [filename |-> trash_file.filename,
     file_type |-> trash_file.file_type,
     file_size |-> trash_file.file_size,
     file_path |-> Get(trash_file, "file_path", ""),
     description |-> Get(trash_file, "description", ""),
     user_id |-> user_id,
     collections |-> Get(trash_file, "collections", <<>>),
     stored_filename |-> Get(trash_file, "stored_filename", <<>>),
     file_data |-> Get(trash_file, "file_data", <<>>)]

\* TrashBin documents of one type and user matching a query on original_id.
TrashByOriginal(db, original_id, user_id, type) ==
    {t \in DOMAIN db.TrashBin :
        /\ Get(db.TrashBin[t], "original_id", BadId) = original_id
        /\ db.TrashBin[t].user_id = user_id
        /\ db.TrashBin[t].type = type}

\* The trash document with _id = ObjectId(id) of one type and user, if any.
TrashById(db, id, user_id, type) ==
    {t \in DOMAIN db.TrashBin :
        /\ ValidId(id)
        /\ t = ObjectIdOf(id)
        /\ db.TrashBin[t].user_id = user_id
        /\ db.TrashBin[t].type = type}

\* find_one on original_id; which of several matching documents it returns
\* is the database's choice.
RestoreFind(db, r) ==
    LET found == TrashByOriginal(db, r.arg, r.user_id, "file")
    IN  IF found = {} THEN Outcome(db, At(r, "rs_byid", <<>>))
        ELSE UNION {Outcome(db, At(r, "rs_insert",
                        [trash_id |-> t, trash_file |-> db.TrashBin[t]])) : t \in found}

\* A variant of RestoreFindById without the second lookup.
RestoreFindById_Missing(db, r) ==
    Outcome(db, Refusal(r, 404, "File not found in trash"))

\* The fallback find_one on the trash document's own _id.
RestoreFindById(db, r) ==
    LET found == TrashById(db, r.arg, r.user_id, "file")
    IN  IF found = {} THEN Outcome(db, Refusal(r, 404, "File not found in trash"))
        ELSE UNION {Outcome(db, At(r, "rs_insert",
                        [trash_id |-> t, trash_file |-> db.TrashBin[t]])) : t \in found}

\* A variant of RestoreInsert that writes over a record already stored under
\* the original _id (replace_one with upsert in place of insert_one).
RestoreInsert_Replace(db, r) ==
    LET file_id_to_use == Get(r.trash_file, "original_id", BadId)
        doc == RestoredFile(r.trash_file, r.user_id)
        id == IF ValidId(file_id_to_use) THEN ObjectIdOf(file_id_to_use) ELSE db.nextId
        after == [pc |-> "rs_untrash", op |-> r.op, user_id |-> r.user_id,
                  arg |-> r.arg, trash_id |-> r.trash_id, inserted_id |-> id]
    IN  IF ValidId(file_id_to_use)
        THEN Outcome([db EXCEPT !.Files = (id :> doc) @@ @], after)
        ELSE Outcome([db EXCEPT !.Files = Inserted(@, id, doc), !.nextId = @ + 1], after)

\* A variant of RestoreInsert that mints an _id when the original one is
\* already in Files.
RestoreInsert_Mint(db, r) ==
    LET file_id_to_use == Get(r.trash_file, "original_id", BadId)
        doc == RestoredFile(r.trash_file, r.user_id)
        free == ValidId(file_id_to_use) /\ ObjectIdOf(file_id_to_use) \notin DOMAIN db.Files
        id == IF free THEN ObjectIdOf(file_id_to_use) ELSE db.nextId
        after == [pc |-> "rs_untrash", op |-> r.op, user_id |-> r.user_id,
                  arg |-> r.arg, trash_id |-> r.trash_id, inserted_id |-> id]
    IN  IF free
        THEN Outcome([db EXCEPT !.Files = Inserted(@, id, doc)], after)
        ELSE Outcome([db EXCEPT !.Files = Inserted(@, id, doc), !.nextId = @ + 1], after)

\* db.Files.insert_one(restored_file): under the original _id when the trash
\* document names a valid one, under a minted _id otherwise.  An _id already
\* in Files makes insert_one raise DuplicateKeyError.
RestoreInsert(db, r) ==
    LET file_id_to_use == Get(r.trash_file, "original_id", BadId)
        doc == RestoredFile(r.trash_file, r.user_id)
        id == IF ValidId(file_id_to_use) THEN ObjectIdOf(file_id_to_use) ELSE db.nextId
        after == [pc |-> "rs_untrash", op |-> r.op, user_id |-> r.user_id,
                  arg |-> r.arg, trash_id |-> r.trash_id, inserted_id |-> id]
    IN  IF ValidId(file_id_to_use)
        THEN IF id \in DOMAIN db.Files
             THEN Outcome(db, Refusal(r, 500, "DuplicateKeyError"))
             ELSE Outcome([db EXCEPT !.Files = Inserted(@, id, doc)], after)
        ELSE Outcome([db EXCEPT !.Files = Inserted(@, id, doc), !.nextId = @ + 1], after)

\* db.TrashBin.delete_one({'_id': trash_file['_id']})
RestoreUntrash(db, r) ==
    Outcome([db EXCEPT !.TrashBin = Deleted(@, r.trash_id)],
            Success(r, 200, "File restored successfully", r.inserted_id))

\* ------------------------------------------------ DeletePermanently.delete
PurgeRequest(user_id, item_id) ==
    [pc |-> "pg_find", op |-> "purge", user_id |-> user_id, arg |-> item_id]

\* A variant of PurgeFind whose query has no user_id.
PurgeFind_AnyUser(db, r) ==
    LET t == ObjectIdOf(r.arg)
    IN  Outcome(db,
            IF ~ValidId(r.arg) THEN Refusal(r, 500, "InvalidId")
            ELSE IF t \notin DOMAIN db.TrashBin
            THEN Refusal(r, 404, "Item not found in trash")
            ELSE At(r, "pg_delete", [trash_item |-> db.TrashBin[t]]))

\* find_one on the trash document's _id and the user.  file_path is never
\* set by an upload, so the os.remove branch is not taken.
PurgeFind(db, r) ==
    LET t == ObjectIdOf(r.arg)
    IN  Outcome(db,
            IF ~ValidId(r.arg) THEN Refusal(r, 500, "InvalidId")
            ELSE IF t \notin DOMAIN db.TrashBin \/ db.TrashBin[t].user_id # r.user_id
            THEN Refusal(r, 404, "Item not found in trash")
            ELSE At(r, "pg_delete", [trash_item |-> db.TrashBin[t]]))

\* A variant of PurgeDelete that answers without the delete_one.
PurgeDelete_Keep(db, r) ==
    Outcome(db, [trash_item |-> r.trash_item]
                    @@ Success(r, 200, "Item deleted permanently", ObjectIdOf(r.arg)))

\* db.TrashBin.delete_one({'_id': ObjectId(item_id)}); the handler still
\* holds the trash document it found.
PurgeDelete(db, r) ==
    Outcome([db EXCEPT !.TrashBin = Deleted(@, ObjectIdOf(r.arg))],
            [trash_item |-> r.trash_item]
                @@ Success(r, 200, "Item deleted permanently", ObjectIdOf(r.arg)))

\* ---------------------------------------------------------- FileDetail.put
RenameRequest(user_id, file_id, raw, force) ==
    [pc |-> "rn_find", op |-> "rename", user_id |-> user_id, arg |-> file_id,
     raw |-> raw, force |-> force]

\* The old extension appended to a new name that has none.
WithOldExtension(new_filename, old_filename) ==
    IF HasDot(old_filename) /\ ~HasDot(new_filename)
    THEN new_filename \o <<".">> \o LowerExtension(old_filename)
    ELSE new_filename

\* Input validation, find_one by _id and the ownership check.
RenameFind(db, r) ==
    LET safe == secure_filename(Strip(r.raw))
        oid == ObjectIdOf(r.arg)
    IN  Outcome(db,
            IF Strip(r.raw) = <<>> THEN Refusal(r, 400, "New filename is required")
            ELSE IF safe = <<>> THEN Refusal(r, 400, "Invalid filename")
            ELSE IF ~ValidId(r.arg) THEN Refusal(r, 500, "InvalidId")
            ELSE IF oid \notin DOMAIN db.Files THEN Refusal(r, 404, "File not found")
            ELSE IF db.Files[oid].user_id # r.user_id THEN Refusal(r, 403, "no permission")
            ELSE [pc |-> "rn_existing", op |-> r.op, user_id |-> r.user_id,
                  arg |-> r.arg, force |-> r.force,
                  new_filename |-> WithOldExtension(safe, db.Files[oid].filename),
                  has_stored |-> "stored_filename" \in DOMAIN db.Files[oid],
                  old_stored |-> Get(db.Files[oid], "stored_filename", <<>>)])

\* Where the handler goes once the new name is settled.
RenameUpdatePc(r) == IF r.has_stored THEN "rn_stored" ELSE "rn_name"

\* The query for another record of the user with the new name.
RenameExisting(db, r) ==
    LET existing_files ==
            r.new_filename \in ActiveNames(db, r.user_id, {ObjectIdOf(r.arg)})
    IN  Outcome(db, At(r, IF existing_files THEN "rn_similar" ELSE RenameUpdatePc(r), <<>>))

\* A variant of RenameSimilar whose query for name(N).ext does not leave out
\* the record being renamed.
RenameSimilar_Self(db, r) ==
    LET name_without_ext == NameWithoutExt(r.new_filename)
        ext == Ext(r.new_filename)
        similar_files ==
            {n \in ActiveNames(db, r.user_id, {}) :
                 MatchesSimilar(n, name_without_ext, ext)}
        suggested_name == SuggestedName(name_without_ext, ext, similar_files)
    IN  IF r.force
        THEN Outcome(db, At(r, RenameUpdatePc(r), [new_filename |-> suggested_name]))
        ELSE Outcome(db, Refusal(r, 409, suggested_name))

\* The same step with the suggestion applied whatever the force flag says.
RenameSimilar_Apply(db, r) ==
    LET name_without_ext == NameWithoutExt(r.new_filename)
        ext == Ext(r.new_filename)
        similar_files ==
            {n \in ActiveNames(db, r.user_id, {ObjectIdOf(r.arg)}) :
                 MatchesSimilar(n, name_without_ext, ext)}
        suggested_name == SuggestedName(name_without_ext, ext, similar_files)
    IN  Outcome(db, At(r, RenameUpdatePc(r), [new_filename |-> suggested_name]))

\* The query for name(N).ext, the suggestion, and the force flag.
RenameSimilar(db, r) ==
    LET name_without_ext == NameWithoutExt(r.new_filename)
        ext == Ext(r.new_filename)
        similar_files ==
            {n \in ActiveNames(db, r.user_id, {ObjectIdOf(r.arg)}) :
                 MatchesSimilar(n, name_without_ext, ext)}
        suggested_name == SuggestedName(name_without_ext, ext, similar_files)
    IN  IF r.force
        THEN Outcome(db, At(r, RenameUpdatePc(r), [new_filename |-> suggested_name]))
        ELSE Outcome(db, Refusal(r, 409, suggested_name))

\* old_stored.split('_', 1)[0] when the stored name holds a "_", a new uuid
\* otherwise.
StoredPrefix(old_stored) ==
    LET at == {i \in 1..Len(old_stored) : old_stored[i] = "_"}
    IN  IF at = {} THEN <<"uuid">>
        ELSE SubSeq(old_stored, 1, (CHOOSE i \in at : \A j \in at : i <= j) - 1)

\* update_one: $set stored_filename
RenameUpdateStored(db, r) ==
    Outcome([db EXCEPT !.Files = UpdatedSet(@, ObjectIdOf(r.arg),
                [stored_filename |-> StoredPrefix(r.old_stored) \o <<"_">> \o r.new_filename])],
            At(r, "rn_name", <<>>))

\* update_one: $set filename
RenameUpdateName(db, r) ==
    Outcome([db EXCEPT !.Files = UpdatedSet(@, ObjectIdOf(r.arg),
                                            [filename |-> r.new_filename])],
            At(r, "rn_refetch", <<>>))

\* find_one of the updated record for the response; a record gone by now
\* makes the handler raise on None.
RenameRefetch(db, r) ==
    LET oid == ObjectIdOf(r.arg)
    IN  Outcome(db, IF oid \in DOMAIN db.Files
                    THEN Success(r, 200, db.Files[oid].filename, oid)
                    ELSE Refusal(r, 500, "TypeError"))

\* ----------------------------------------------------------- ShareFile.post
\* uuid.uuid4() gives any token; two stand for them all.
Tokens == {"t1", "t2"}
\* expiration_days of the request; 7 when the request gives none.
ExpirationDays == {7}

ShareRequest(user_id, file_id, expiration_days) ==
    [pc |-> "sh_find", op |-> "share", user_id |-> user_id, arg |-> file_id,
     expiration_days |-> expiration_days]

\* find_one by _id and the ownership check.
ShareFind(db, r) ==
    LET oid == ObjectIdOf(r.arg)
    IN  Outcome(db,
            IF ~ValidId(r.arg) THEN Refusal(r, 500, "InvalidId")
            ELSE IF oid \notin DOMAIN db.Files THEN Refusal(r, 404, "File not found")
            ELSE IF db.Files[oid].user_id # r.user_id THEN Refusal(r, 403, "no permission")
            ELSE At(r, "sh_update", <<>>))

\* update_one: $set public_access_token and token_expiration.  The expiry is
\* kept as the days added to the time of the request.
ShareUpdate(db, r) ==
    UNION {Outcome([db EXCEPT !.Files = UpdatedSet(@, ObjectIdOf(r.arg),
                        [public_access_token |-> access_token,
                         token_expiration |-> r.expiration_days])],
                   Success(r, 200, access_token, ObjectIdOf(r.arg))) :
              access_token \in Tokens}

\* ------------------------------------------------- PublicFileDownload.get
\* The request carries no user.  `age` is the time of the request, in days
\* since the record's sharing link was issued.
DownloadRequest(file_id, access_token, age) ==
    [pc |-> "pd_find", op |-> "public_download", arg |-> file_id,
     access_token |-> access_token, age |-> age]

\* A variant of Expired for links that never expire.
Expired_Never(expiration_days, age) == FALSE

\* expiration_date < datetime.now(), for a link issued `age` days ago.
Expired(expiration_days, age) == expiration_days < age

\* find_one by _id, then the checks of the token, of its expiry and of the
\* payload on the record read.
DownloadFind(db, r) ==
    LET oid == ObjectIdOf(r.arg)
        file_record == db.Files[oid]
        answer(status, body) ==
            [pc |-> "done", op |-> r.op, status |-> status, body |-> body]
    IN  Outcome(db,
            IF ~ValidId(r.arg) THEN answer(500, "InvalidId")
            ELSE IF oid \notin DOMAIN db.Files THEN answer(404, "File not found")
            ELSE IF \/ "public_access_token" \notin DOMAIN file_record
                    \/ file_record.public_access_token # r.access_token
            THEN answer(403, "Invalid access token")
            ELSE IF /\ "token_expiration" \in DOMAIN file_record
                    /\ Expired(file_record.token_expiration, r.age)
            THEN answer(403, "This sharing link has expired")
            ELSE IF Get(file_record, "file_data", <<>>) = <<>>
            THEN answer(404, "File data is missing or corrupted")
            ELSE answer(200, file_record.file_data))

\* ------------------------------------------------------ CollectionList.post
CreateCollectionRequest(user_id, raw) ==
    [pc |-> "cc_insert", op |-> "create_collection", user_id |-> user_id, arg |-> raw]

\* The name check and insert_one; the document is stored without "files".
CreateCollectionInsert(db, r) ==
    IF Strip(r.arg) = <<>> THEN Outcome(db, Refusal(r, 400, "Collection name is required"))
    ELSE Outcome([db EXCEPT !.collections =
                                Inserted(@, db.nextId, [name |-> Strip(r.arg),
                                                        owner_id |-> r.user_id]),
                            !.nextId = @ + 1],
                 Success(r, 201, Strip(r.arg), db.nextId))

\* ------------------------------------------------ AddFileToCollection.post
AddMemberRequest(user_id, file_id, collection_id) ==
    [pc |-> "am_file", op |-> "add_member", user_id |-> user_id, arg |-> file_id,
     collection_id |-> collection_id]

\* A variant of AddToSet that appends whether or not the array holds x ($push).
AddToSet_Push(array, x) == Append(array, x)

\* $addToSet on the array of member identifier strings.
AddToSet(array, x) ==
    IF \E i \in 1..Len(array) : array[i] = x THEN array ELSE Append(array, x)

\* find_one of the record by _id and user.
AddMemberFile(db, r) ==
    LET oid == ObjectIdOf(r.arg)
    IN  Outcome(db,
            IF ~ValidId(r.arg) THEN Refusal(r, 400, "InvalidId")
            ELSE IF oid \notin DOMAIN db.Files \/ db.Files[oid].user_id # r.user_id
            THEN Refusal(r, 404, "File not found")
            ELSE At(r, "am_find", <<>>))

\* Collection.add_file: find_one of the collection by _id and owner.
AddMemberFind(db, r) ==
    LET cid == ObjectIdOf(r.collection_id)
    IN  Outcome(db,
            IF \/ ~ValidId(r.collection_id)
               \/ cid \notin DOMAIN db.collections
               \/ db.collections[cid].owner_id # r.user_id
            THEN Refusal(r, 404, "Collection not found")
            ELSE At(r, "am_update", <<>>))

\* Collection.add_file: update_one with $addToSet of the identifier as sent.
AddMemberUpdate(db, r) ==
    LET cid == ObjectIdOf(r.collection_id)
    IN  IF cid \in DOMAIN db.collections /\ db.collections[cid].owner_id = r.user_id
        THEN Outcome([db EXCEPT !.collections = UpdatedSet(@, cid,
                         [files |-> AddToSet(Get(db.collections[cid], "files", <<>>), r.arg)])],
                     At(r, "am_refetch", <<>>))
        ELSE Outcome(db, Refusal(r, 404, "Collection not found"))

\* Collection.add_file: find_one of the updated collection for the response.
AddMemberRefetch(db, r) ==
    LET cid == ObjectIdOf(r.collection_id)
    IN  Outcome(db, IF cid \in DOMAIN db.collections
                    THEN Success(r, 200, "File added to collection successfully", cid)
                    ELSE Refusal(r, 404, "Collection not found"))

\* ------------------------------------------------------ CollectionFiles.get
ListMembersRequest(user_id, collection_id) ==
    [pc |-> "lm_find", op |-> "list_members", user_id |-> user_id,
     arg |-> collection_id]

\* The elements of a finite set of numbers in increasing order.
RECURSIVE InOrder(_)
InOrder(S) ==
    IF S = {} THEN <<>>
    ELSE LET least == CHOOSE x \in S : \A y \in S : x <= y
         IN  <<least>> \o InOrder(S \ {least})

\* find_one of the collection by _id and owner.
ListMembersFind(db, r) ==
    LET cid == ObjectIdOf(r.arg)
    IN  Outcome(db,
            IF ~ValidId(r.arg) THEN Refusal(r, 400, "InvalidId")
            ELSE IF \/ cid \notin DOMAIN db.collections
                    \/ db.collections[cid].owner_id # r.user_id
            THEN Refusal(r, 404, "Collection not found")
            ELSE At(r, "lm_files", [file_ids |-> Get(db.collections[cid], "files", <<>>)]))

\* db.Files.find({'_id': {'$in': [ObjectId(file_id) ...]}}): each matching
\* document once, as str(_id); a malformed member string makes ObjectId raise.
ListMembersFiles(db, r) ==
    LET wanted == {r.file_ids[i] : i \in 1..Len(r.file_ids)}
        found == {id \in DOMAIN db.Files : \E m \in wanted : ObjectIdOf(m) = id}
    IN  Outcome(db,
            IF \E m \in wanted : ~ValidId(m) THEN Refusal(r, 400, "InvalidId")
            ELSE Success(r, 200, [i \in 1..Cardinality(found) |->
                                     StrOfObjectId(InOrder(found)[i])],
                         ObjectIdOf(r.arg)))

\* -------------------------------------------------- CollectionDetail.delete
DeleteCollectionRequest(user_id, collection_id) ==
    [pc |-> "cd_find", op |-> "delete_collection", user_id |-> user_id,
     arg |-> collection_id]

\* The trash document built from the collection read.
CollectionTrashItem(collection, current_user, object_id) ==
    [name |-> collection.name,
     user_id |-> current_user,
     owner_id |-> current_user,
     files |-> Get(collection, "files", <<>>),
     type |-> "collection",
     original_id |-> StrOfObjectId(object_id)]

\* The identifier check and find_one by _id and owner.
DeleteCollectionFind(db, r) ==
    LET object_id == ObjectIdOf(r.arg)
    IN  Outcome(db,
            IF ~ValidId(r.arg) THEN Refusal(r, 400, "Invalid collection ID format")
            ELSE IF \/ object_id \notin DOMAIN db.collections
                    \/ db.collections[object_id].owner_id # r.user_id
            THEN Refusal(r, 404, "Collection not found")
            ELSE At(r, "cd_trash", [collection |-> db.collections[object_id]]))

\* db.TrashBin.insert_one(trash_item)
DeleteCollectionTrashInsert(db, r) ==
    Outcome([db EXCEPT !.TrashBin = Inserted(@, db.nextId,
                           CollectionTrashItem(r.collection, r.user_id, ObjectIdOf(r.arg))),
                       !.nextId = @ + 1],
            [pc |-> "cd_delete", op |-> r.op, user_id |-> r.user_id,
             arg |-> r.arg, trash_id |-> db.nextId])

\* db.collections.delete_one by _id and owner.
DeleteCollectionRemove(db, r) ==
    LET object_id == ObjectIdOf(r.arg)
    IN  Outcome(IF /\ object_id \in DOMAIN db.collections
                   /\ db.collections[object_id].owner_id = r.user_id
                THEN [db EXCEPT !.collections = Deleted(@, object_id)]
                ELSE db,
                Success(r, 200, "Collection moved to trash", r.trash_id))

\* -------------------------------------------------- RestoreCollection.post
RestoreCollectionRequest(user_id, collection_id) ==
    [pc |-> "rc_find", op |-> "restore_collection", user_id |-> user_id,
     arg |-> collection_id]

\* A variant of RestoredCollection that restores the collection empty.
RestoredCollection_NoFiles(trash_collection, user_id) ==
    [name |-> trash_collection.name,
     owner_id |-> user_id,
     files |-> <<>>]

\* The collection document rebuilt from the trash document.
RestoredCollection(trash_collection, user_id) ==
    [name |-> trash_collection.name,
     owner_id |-> user_id,
     files |-> Get(trash_collection, "files", <<>>)]

\* find_one on original_id.
RestoreCollectionFind(db, r) ==
    LET found == TrashByOriginal(db, r.arg, r.user_id, "collection")
    IN  IF found = {} THEN Outcome(db, At(r, "rc_byid", <<>>))
        ELSE UNION {Outcome(db, At(r, "rc_insert",
                        [trash_id |-> t, trash_collection |-> db.TrashBin[t]])) : t \in found}

\* The fallback find_one on the trash document's own _id.
RestoreCollectionFindById(db, r) ==
    LET found == TrashById(db, r.arg, r.user_id, "collection")
    IN  IF found = {} THEN Outcome(db, Refusal(r, 404, "Collection not found in trash"))
        ELSE UNION {Outcome(db, At(r, "rc_insert",
                        [trash_id |-> t, trash_collection |-> db.TrashBin[t]])) : t \in found}

\* db.collections.insert_one(restored_collection), as RestoreInsert.
RestoreCollectionInsert(db, r) ==
    LET collection_id_to_use == Get(r.trash_collection, "original_id", BadId)
        doc == RestoredCollection(r.trash_collection, r.user_id)
        id == IF ValidId(collection_id_to_use)
              THEN ObjectIdOf(collection_id_to_use) ELSE db.nextId
        after == [pc |-> "rc_untrash", op |-> r.op, user_id |-> r.user_id,
                  arg |-> r.arg, trash_id |-> r.trash_id, inserted_id |-> id]
    IN  IF ValidId(collection_id_to_use)
        THEN IF id \in DOMAIN db.collections
             THEN Outcome(db, Refusal(r, 500, "DuplicateKeyError"))
             ELSE Outcome([db EXCEPT !.collections = Inserted(@, id, doc)], after)
        ELSE Outcome([db EXCEPT !.collections = Inserted(@, id, doc),
                                !.nextId = @ + 1], after)

\* db.TrashBin.delete_one({'_id': trash_collection['_id']})
RestoreCollectionUntrash(db, r) ==
    Outcome([db EXCEPT !.TrashBin = Deleted(@, r.trash_id)],
            Success(r, 200, "Collection restored successfully", r.inserted_id))

\* ------------------------------------------------------- User.create_user
\* 'storage_limit': 24576, the default limit in MB.
DefaultStorageLimit == 24576

CreateUserRequest(user_id) ==
    [pc |-> "cu_insert", op |-> "create_user", user_id |-> user_id, arg |-> user_id]

\* db.Users.insert_one(user); a second document for the same user is
\* refused by the unique index.  A model function returns no HTTP status:
\* status 0, and the value returned as the body.
CreateUserInsert(db, r) ==
    IF r.user_id \in DOMAIN db.Users
    THEN Outcome(db, Refusal(r, 0, "DuplicateKeyError"))
    ELSE Outcome([db EXCEPT !.Users =
                      Inserted(@, r.user_id, [storage_limit |-> DefaultStorageLimit])],
                 Success(r, 0, TRUE, r.user_id))

\* ------------------------------------------- User.increase_storage_limit
\* Units are strings of characters, as sent.
UnitMB == <<"M", "B">>
UnitGB == <<"G", "B">>
UnitTB == <<"T", "B">>
Units == {UnitMB, UnitGB, UnitTB, <<"K", "B">>, <<"g", "b">>}
Amounts == {1, 2, 256, 512}

\* str.upper()
UpperChar(c) ==
    CASE c = "g" -> "G" [] c = "b" -> "B" [] c = "m" -> "M" [] c = "t" -> "T"
      [] c = "k" -> "K" [] OTHER -> c
Upper(s) == [i \in 1..Len(s) |-> UpperChar(s[i])]

IncreaseRequest(user_id, additional_storage, unit) ==
    [pc |-> "inc_find", op |-> "increase", user_id |-> user_id,
     arg |-> additional_storage, unit |-> unit]

\* A variant of AdditionalStorageMb with decimal multipliers.
AdditionalStorageMb_Decimal(additional_storage, unit) ==
    IF Upper(unit) = UnitGB THEN additional_storage * 1000
    ELSE IF Upper(unit) = UnitTB THEN additional_storage * 1000 * 1000
    ELSE additional_storage

\* additional_storage_mb
AdditionalStorageMb(additional_storage, unit) ==
    IF Upper(unit) = UnitGB THEN additional_storage * 1024
    ELSE IF Upper(unit) = UnitTB THEN additional_storage * 1024 * 1024
    ELSE additional_storage

\* A variant of IncreaseFind that reads the current limit under a key the
\* user document does not have.
IncreaseFind_WrongKey(db, r) ==
    IF r.user_id \notin DOMAIN db.Users THEN Outcome(db, Refusal(r, 0, FALSE))
    ELSE Outcome(db, At(r, "inc_update",
             [new_limit |-> Get(db.Users[r.user_id], "limit", 0)
                                + AdditionalStorageMb(r.arg, r.unit)]))

\* find_one of the user, and new_limit computed from the limit read.
IncreaseFind(db, r) ==
    IF r.user_id \notin DOMAIN db.Users THEN Outcome(db, Refusal(r, 0, FALSE))
    ELSE Outcome(db, At(r, "inc_update",
             [new_limit |-> Get(db.Users[r.user_id], "storage_limit", 0)
                                + AdditionalStorageMb(r.arg, r.unit)]))

\* update_one: $set storage_limit to the new_limit computed.
IncreaseUpdate(db, r) ==
    Outcome([db EXCEPT !.Users = UpdatedSet(@, r.user_id, [storage_limit |-> r.new_limit])],
            Success(r, 0, TRUE, r.user_id))

\* ------------------------------------------------------ CollectionDetail.put
RenameCollectionRequest(user_id, collection_id, raw) ==
    [pc |-> "cr_find", op |-> "rename_collection", user_id |-> user_id,
     arg |-> collection_id, name |-> raw]

\* The identifier check, the name check and find_one by _id and owner.
RenameCollectionFind(db, r) ==
    LET object_id == ObjectIdOf(r.arg)
    IN  Outcome(db,
            IF ~ValidId(r.arg) THEN Refusal(r, 400, "Invalid collection ID format")
            ELSE IF Strip(r.name) = <<>> THEN Refusal(r, 400, "Collection name is required")
            ELSE IF \/ object_id \notin DOMAIN db.collections
                    \/ db.collections[object_id].owner_id # r.user_id
            THEN Refusal(r, 404, "Collection not found")
            ELSE At(r, "cr_update", <<>>))

\* update_one by _id and owner with $set of the stripped name.
RenameCollectionUpdate(db, r) ==
    LET object_id == ObjectIdOf(r.arg)
    IN  Outcome(IF /\ object_id \in DOMAIN db.collections
                   /\ db.collections[object_id].owner_id = r.user_id
                THEN [db EXCEPT !.collections =
                                    UpdatedSet(@, object_id, [name |-> Strip(r.name)])]
                ELSE db,
                At(r, "cr_refetch", <<>>))

\* find_one of the updated collection for the response; subscripting None
\* raises and the handler answers 500.
RenameCollectionRefetch(db, r) ==
    LET object_id == ObjectIdOf(r.arg)
    IN  Outcome(db,
            IF /\ object_id \in DOMAIN db.collections
               /\ db.collections[object_id].owner_id = r.user_id
            THEN Success(r, 200, db.collections[object_id].name, object_id)
            ELSE Refusal(r, 500, "An error occurred while processing your request"))

\* ------------------------------------------ RemoveFileFromCollection.delete
RemoveMemberRequest(user_id, file_id, collection_id) ==
    [pc |-> "rm_file", op |-> "remove_member", user_id |-> user_id, arg |-> file_id,
     collection_id |-> collection_id]

\* $pull on the array of member identifier strings.
Pull(array, x) == SelectSeq(array, LAMBDA y : y # x)

\* find_one of the record by _id and user.
RemoveMemberFile(db, r) ==
    LET oid == ObjectIdOf(r.arg)
    IN  Outcome(db,
            IF ~ValidId(r.arg) THEN Refusal(r, 400, "InvalidId")
            ELSE IF oid \notin DOMAIN db.Files \/ db.Files[oid].user_id # r.user_id
            THEN Refusal(r, 404, "File not found")
            ELSE At(r, "rm_pull", <<>>))

\* Collection.remove_file: update_one by _id and owner with $pull of the
\* identifier as sent.
RemoveMemberPull(db, r) ==
    LET cid == ObjectIdOf(r.collection_id)
    IN  IF /\ ValidId(r.collection_id)
           /\ cid \in DOMAIN db.collections
           /\ db.collections[cid].owner_id = r.user_id
        THEN Outcome([db EXCEPT !.collections =
                         IF "files" \in DOMAIN db.collections[cid]
                         THEN UpdatedSet(@, cid,
                                  [files |-> Pull(db.collections[cid].files, r.arg)])
                         ELSE @],
                     At(r, "rm_refetch", <<>>))
        ELSE Outcome(db, Refusal(r, 404, "Collection not found"))

\* Collection.remove_file: find_one of the updated collection for the response.
RemoveMemberRefetch(db, r) ==
    LET cid == ObjectIdOf(r.collection_id)
    IN  Outcome(db, IF cid \in DOMAIN db.collections
                    THEN Success(r, 200, "File removed from collection successfully", cid)
                    ELSE Refusal(r, 404, "Collection not found"))

\* ------------------------------------------------------------------ steps
\* The step a request in flight takes next.
StepOf(db, r) ==
    CASE r.pc = "up_find" -> UploadFind(db, r)
      [] r.pc = "up_similar" -> UploadSimilar(db, r)
      [] r.pc = "up_insert" -> UploadInsert(db, r)
      [] r.pc = "ub_check" -> BatchUploadCheck(db, r)
      [] r.pc = "ub_file" -> BatchUploadFile(db, r)
      [] r.pc = "rn_find" -> RenameFind(db, r)
      [] r.pc = "rn_existing" -> RenameExisting(db, r)
      [] r.pc = "rn_similar" -> RenameSimilar(db, r)
      [] r.pc = "rn_stored" -> RenameUpdateStored(db, r)
      [] r.pc = "rn_name" -> RenameUpdateName(db, r)
      [] r.pc = "rn_refetch" -> RenameRefetch(db, r)
      [] r.pc = "sd_find" -> DeleteFind(db, r)
      [] r.pc = "sd_trash" -> DeleteTrashInsert(db, r)
      [] r.pc = "sd_delete" -> DeleteRemove(db, r)
      [] r.pc = "rs_find" -> RestoreFind(db, r)
      [] r.pc = "rs_byid" -> RestoreFindById(db, r)
      [] r.pc = "rs_insert" -> RestoreInsert(db, r)
      [] r.pc = "rs_untrash" -> RestoreUntrash(db, r)
      [] r.pc = "pg_find" -> PurgeFind(db, r)
      [] r.pc = "pg_delete" -> PurgeDelete(db, r)
      [] r.pc = "sh_find" -> ShareFind(db, r)
      [] r.pc = "sh_update" -> ShareUpdate(db, r)
      [] r.pc = "pd_find" -> DownloadFind(db, r)
      [] r.pc = "cc_insert" -> CreateCollectionInsert(db, r)
      [] r.pc = "cu_insert" -> CreateUserInsert(db, r)
      [] r.pc = "inc_find" -> IncreaseFind(db, r)
      [] r.pc = "inc_update" -> IncreaseUpdate(db, r)
      [] r.pc = "am_file" -> AddMemberFile(db, r)
      [] r.pc = "am_find" -> AddMemberFind(db, r)
      [] r.pc = "am_update" -> AddMemberUpdate(db, r)
      [] r.pc = "am_refetch" -> AddMemberRefetch(db, r)
      [] r.pc = "lm_find" -> ListMembersFind(db, r)
      [] r.pc = "lm_files" -> ListMembersFiles(db, r)
      [] r.pc = "cd_find" -> DeleteCollectionFind(db, r)
      [] r.pc = "cd_trash" -> DeleteCollectionTrashInsert(db, r)
      [] r.pc = "cd_delete" -> DeleteCollectionRemove(db, r)
      [] r.pc = "rc_find" -> RestoreCollectionFind(db, r)
      [] r.pc = "rc_byid" -> RestoreCollectionFindById(db, r)
      [] r.pc = "rc_insert" -> RestoreCollectionInsert(db, r)
      [] r.pc = "rc_untrash" -> RestoreCollectionUntrash(db, r)
      [] r.pc = "cr_find" -> RenameCollectionFind(db, r)
      [] r.pc = "cr_update" -> RenameCollectionUpdate(db, r)
      [] r.pc = "cr_refetch" -> RenameCollectionRefetch(db, r)
      [] r.pc = "rm_file" -> RemoveMemberFile(db, r)
      [] r.pc = "rm_pull" -> RemoveMemberPull(db, r)
      [] r.pc = "rm_refetch" -> RemoveMemberRefetch(db, r)

\* The whole handler: its steps run one after another to the response.
Handle(db, r) ==
    IF r.pc = "done" THEN Outcome(db, r)
    ELSE UNION {Handle(o.db, o.r) : o \in StepOf(db, r)}

Idle == [pc |-> "idle"]
Free(p) == req[p].pc \in {"idle", "done"}

Init ==
    /\ Files = <<>>
    /\ collections = <<>>
    /\ TrashBin = <<>>
    /\ Users = <<>>
    /\ nextId = 1
    /\ req = [p \in Slots |-> Idle]

\* The runs explored: at most MaxIds ObjectIds minted, no record name
\* numbered beyond MaxNum, no storage limit grown by more than MaxGrowth GB.
WithinBounds(db) ==
    /\ db.nextId <= MaxIds + 1
    /\ \A id \in DOMAIN db.Files : HighestNum({db.Files[id].filename}) <= MaxNum
    /\ \A u \in DOMAIN db.Users :
           db.Users[u].storage_limit <= DefaultStorageLimit + MaxGrowth * 1024

\* The database after an outcome.
Commit(db) ==
    /\ WithinBounds(db)
    /\ Files' = db.Files
    /\ collections' = db.collections
    /\ TrashBin' = db.TrashBin
    /\ Users' = db.Users
    /\ nextId' = db.nextId

\* Request r served from its first step to its response, with no other
\* request in flight; responses of the requests before it are dropped.
Serve(r) ==
    /\ \A p \in Slots : Free(p)
    /\ \E o \in Handle(DB, r) : Commit(o.db)
    /\ req' = [p \in Slots |-> Idle]

\* Two clients send their requests at the same time: both are in flight
\* before either has made a step.
Issue(r1, r2) ==
    /\ \A p \in Slots : Free(p)
    /\ req' = [p \in Slots |-> IF p = 1 THEN r1 ELSE r2]
    /\ UNCHANGED <<Files, collections, TrashBin, Users, nextId>>

\* The request in flight in slot p makes its next step.
Continue(p) ==
    /\ ~Free(p)
    /\ \E o \in StepOf(DB, req[p]) :
           /\ Commit(o.db)
           /\ req' = [req EXCEPT ![p] = o.r]

\* Identifier strings a client may send: the string of a minted ObjectId,
\* or a malformed string.
MintedIds == {LowerId(n) : n \in 1..(nextId - 1)}
IdStrings == MintedIds \cup {BadId}

\* The requests of the record lifecycle.
UploadRequests ==
    {UploadRequest(u, raw, data, d) :
        u \in Owners, raw \in UploadNames, data \in Payloads, d \in Descriptions}
RenameRequests ==
    {RenameRequest(u, id, raw, force) :
        u \in Owners, id \in IdStrings, raw \in RenameNames, force \in BOOLEAN}
DeleteRequests == {DeleteRequest(u, id) : u \in Owners, id \in IdStrings}
RestoreRequests == {RestoreRequest(u, id) : u \in Owners, id \in IdStrings}
PurgeRequests == {PurgeRequest(u, id) : u \in Owners, id \in IdStrings}

\* The requests of the collection lifecycle and of membership.
CreateCollectionRequests ==
    {CreateCollectionRequest(u, raw) : u \in Owners, raw \in CollectionNames}
AddMemberRequests ==
    {AddMemberRequest(u, f, c) : u \in Owners, f \in IdStrings, c \in IdStrings}
ListMembersRequests ==
    {ListMembersRequest(u, id) : u \in Owners, id \in IdStrings}
DeleteCollectionRequests ==
    {DeleteCollectionRequest(u, id) : u \in Owners, id \in IdStrings}
RestoreCollectionRequests ==
    {RestoreCollectionRequest(u, id) : u \in Owners, id \in IdStrings}

Upload == \E r \in UploadRequests : Serve(r)
Rename == \E r \in RenameRequests : Serve(r)
SoftDelete == \E r \in DeleteRequests : Serve(r)
Restore == \E r \in RestoreRequests : Serve(r)
Purge == \E r \in PurgeRequests : Serve(r)
CreateCollection == \E r \in CreateCollectionRequests : Serve(r)
AddMember == \E r \in AddMemberRequests : Serve(r)
ListMembers == \E r \in ListMembersRequests : Serve(r)
DeleteCollection == \E r \in DeleteCollectionRequests : Serve(r)
RestoreCollection == \E r \in RestoreCollectionRequests : Serve(r)

\* Requests served one at a time.
Next ==
    \/ Upload \/ Rename \/ SoftDelete \/ Restore \/ Purge
    \/ CreateCollection \/ AddMember \/ DeleteCollection \/ RestoreCollection
    \/ ListMembers

Spec == Init /\ [][Next]_vars

\* The requests clients send at the same time: requests about records, or
\* requests about collections.
ConcurrentRecordRequests ==
    {UploadRequest(u, NameB, <<"x", "y">>, "d") : u \in StepOwners}
        \cup {DeleteRequest(u, id) : u \in StepOwners, id \in MintedIds}
        \cup {RestoreRequest(u, id) : u \in StepOwners, id \in MintedIds}
ConcurrentCollectionRequests ==
    {CreateCollectionRequest(u, <<"c">>) : u \in StepOwners}
        \cup {DeleteCollectionRequest(u, id) : u \in StepOwners, id \in MintedIds}
        \cup {RestoreCollectionRequest(u, id) : u \in StepOwners, id \in MintedIds}

\* One request alone, or two at the same time.
IssueRecordPair ==
    \E r1 \in ConcurrentRecordRequests, r2 \in ConcurrentRecordRequests \cup {Idle} :
        Issue(r1, r2)
IssueCollectionPair ==
    \E r1 \in ConcurrentCollectionRequests, r2 \in ConcurrentCollectionRequests \cup {Idle} :
        Issue(r1, r2)
Step == \E p \in Slots : Continue(p)

\* Pairs of requests whose steps interleave.
NextSteps == IssueRecordPair \/ IssueCollectionPair \/ Step

SpecSteps == Init /\ [][NextSteps]_vars

\* Requests about records sent at the same time, purges among them.
ConcurrentPurgeRequests ==
    ConcurrentRecordRequests
        \cup {PurgeRequest(u, id) : u \in StepOwners, id \in MintedIds}
IssuePurgePair ==
    \E r1 \in ConcurrentPurgeRequests, r2 \in ConcurrentPurgeRequests \cup {Idle} :
        Issue(r1, r2)

\* Pairs of record requests with purges, their steps interleaved.
NextPurge == IssuePurgePair \/ Step

SpecPurge == Init /\ [][NextPurge]_vars

\* The requests for a public link.
ShareRequests ==
    {ShareRequest(u, id, days) : u \in Owners, id \in IdStrings, days \in ExpirationDays}

\* Times of a download, in days since the link was issued: the day of
\* expiry and the day after.
Ages == {7, 8}
DownloadRequests ==
    {DownloadRequest(id, token, age) : id \in IdStrings, token \in Tokens, age \in Ages}

Share == \E r \in ShareRequests : Serve(r)
PublicDownload == \E r \in DownloadRequests : Serve(r)

\* Records with public links, requests served one at a time.
NextShare == Upload \/ Share \/ SoftDelete \/ Restore \/ Purge \/ PublicDownload

SpecShare == Init /\ [][NextShare]_vars

\* The requests of the quota ledger.
CreateUserRequests == {CreateUserRequest(u) : u \in Owners}
\* The increases made in the runs explored: quarters of a GB and more, in
\* each spelling of the unit.
IncreaseInputs ==
    {<<256, UnitMB>>, <<512, UnitMB>>, <<1024, UnitMB>>, <<512, <<"K", "B">>>>,
     <<1, UnitGB>>, <<2, UnitGB>>, <<1, <<"g", "b">>>>, <<1, UnitTB>>}
IncreaseRequests ==
    {IncreaseRequest(u, i[1], i[2]) : u \in Owners, i \in IncreaseInputs}

CreateUser == \E r \in CreateUserRequests : Serve(r)
Increase == \E r \in IncreaseRequests : Serve(r)

\* The quota ledger, calls made one at a time.
NextQuota == CreateUser \/ Increase

SpecQuota == Init /\ [][NextQuota]_vars

\* Two increases sent at the same time, in MB, to accounts whose limit is
\* still the one they were created with.
ConcurrentIncreaseRequests ==
    {IncreaseRequest(u, a, UnitMB) :
        u \in {x \in DOMAIN Users : Users[x].storage_limit = DefaultStorageLimit},
        a \in {256, 512}}
IssueIncreasePair ==
    \E r1 \in ConcurrentIncreaseRequests, r2 \in ConcurrentIncreaseRequests :
        Issue(r1, r2)

\* The quota ledger with pairs of increases whose steps interleave.
NextQuotaSteps == CreateUser \/ IssueIncreasePair \/ Step

SpecQuotaSteps == Init /\ [][NextQuotaSteps]_vars

\* Identifier strings in either spelling: ObjectId(...) accepts the
\* hexadecimal digits in lower and in upper case.
SpelledIds == MintedIds \cup {UpperId(n) : n \in 1..(nextId - 1)}

\* One owner's records and collections, and addMember requests that spell
\* the record's identifier either way, alone or two at the same time.
SpelledAddMemberRequests ==
    {AddMemberRequest("o1", f, c) : f \in SpelledIds, c \in MintedIds}
MemberUpload == Serve(UploadRequest("o1", NameB, <<"x", "y">>, "d"))
MemberCollection == Serve(CreateCollectionRequest("o1", <<"c">>))
AddMemberSpelled == \E r \in SpelledAddMemberRequests : Serve(r)
IssueAddMemberPair ==
    \E r1 \in SpelledAddMemberRequests, r2 \in SpelledAddMemberRequests :
        /\ r1.collection_id = r2.collection_id
        /\ ObjectIdOf(r1.arg) = ObjectIdOf(r2.arg)
        /\ Issue(r1, r2)

NextMembers ==
    \/ MemberUpload \/ MemberCollection \/ AddMemberSpelled
    \/ DeleteCollection \/ RestoreCollection
    \/ IssueAddMemberPair \/ Step

SpecMembers == Init /\ [][NextMembers]_vars

\* A rename of a record served between the pairs, so that a record restored
\* once no longer equals the trash documents still naming its identifier.
RenameOccupant ==
    \E id \in MintedIds : Serve(RenameRequest("o1", id, NameATxt, FALSE))

\* Interleaved pairs and renames.
NextOccupied == IssueRecordPair \/ IssueCollectionPair \/ Step \/ RenameOccupant

SpecOccupied == Init /\ [][NextOccupied]_vars

\* Collection names a rename may carry, and the requests of rename and of
\* removal from a collection.
CollectionRenames == {<<"d">>, <<" ">>}
RenameCollectionRequests ==
    {RenameCollectionRequest(u, id, raw) :
        u \in Owners, id \in IdStrings, raw \in CollectionRenames}
RemoveMemberRequests ==
    {RemoveMemberRequest(u, f, c) : u \in Owners, f \in IdStrings, c \in IdStrings}


\* An account grown by 4 GB.
GrowAccount == \E u \in Owners : Serve(IncreaseRequest(u, 4, UnitGB))

\* The requests of a set that the owner of the pairs sends.
Own(requests) == {r \in requests : r.user_id \in StepOwners}

OwnSoftDelete == \E r \in Own(DeleteRequests) : Serve(r)
OwnRenameCollection == \E r \in Own(RenameCollectionRequests) : Serve(r)
OwnAddMember == \E r \in Own(AddMemberRequests) : Serve(r)
OwnRemoveMember == \E r \in Own(RemoveMemberRequests) : Serve(r)
OwnDeleteCollection == \E r \in Own(DeleteCollectionRequests) : Serve(r)

\* Accounts with their limits next to one owner's records and collections,
\* requests served one at a time.
NextLedger ==
    \/ CreateUser \/ GrowAccount
    \/ MemberUpload \/ OwnSoftDelete
    \/ MemberCollection \/ OwnRenameCollection \/ OwnAddMember \/ OwnRemoveMember
    \/ OwnDeleteCollection

SpecLedger == Init /\ [][NextLedger]_vars

\* The files a batch may carry: two names, and payloads that tell the files
\* apart; batches of up to two files.
BatchFiles ==
    {[filename |-> n, file_data |-> d] :
        n \in UploadNames, d \in {<<>>, <<"x", "y">>, <<"z">>}}
Batches == {<<>>} \cup {<<f>> : f \in BatchFiles}
               \cup {<<f, g>> : f \in BatchFiles, g \in BatchFiles}
BatchUploadRequests ==
    {BatchUploadRequest(u, files, d) :
        u \in Owners, files \in Batches, d \in Descriptions}

UploadBatch == \E r \in BatchUploadRequests : Serve(r)

\* Batches of uploads and soft-deletes, requests served one at a time.
NextBatch == UploadBatch \/ SoftDelete

SpecBatch == Init /\ [][NextBatch]_vars

\* Renames to names of either extension, and of none.
RenameAnyRequests ==
    {RenameRequest(u, id, raw, force) :
        u \in Owners, id \in MintedIds, raw \in UploadNames, force \in BOOLEAN}
RenameAny == \E r \in RenameAnyRequests : Serve(r)

\* Records uploaded, renamed, trashed and restored, requests served one at a
\* time.
NextKinds == Upload \/ RenameAny \/ SoftDelete \/ Restore

SpecKinds == Init /\ [][NextKinds]_vars

\* Accounts, records and collections of several owners, requests served one
\* at a time.
NextOwners ==
    \/ CreateUser \/ Upload \/ SoftDelete
    \/ CreateCollection \/ AddMember \/ DeleteCollection

SpecOwners == Init /\ [][NextOwners]_vars

\* ------------------------------------------------------------------ claims
\* Every field of a string that is the str() of ObjectId n.
IdOf(n) == StrOfObjectId(n)

\* C1: in every reachable state no two active records of one owner have the
\* same display name.
C1_UniqueActiveNames ==
    \A i, j \in DOMAIN Files :
        (i # j /\ Files[i].user_id = Files[j].user_id)
            => Files[i].filename # Files[j].filename

\* A slot holding the success response of handler op.
Succeeded(p, op) == req[p].pc = "done" /\ req[p].op = op /\ req[p].status = 200

\* C2: when two uploads of one owner with the same desired name, sent at the
\* same time, have both succeeded, the two records they created do not carry
\* the same name.
C2_ConcurrentUploadsDistinctNames ==
    \A p, q \in Slots :
        (/\ p # q
         /\ Succeeded(p, "upload") /\ Succeeded(q, "upload")
         /\ req[p].user_id = req[q].user_id
         /\ req[p].arg = req[q].arg)
            => Files[req[p].wrote].filename # Files[req[q].wrote].filename

\* C3: from every reachable state, for every active record R of owner O,
\* softDelete(R, O) followed by restore(R, O) both succeed and give an
\* active record with R's identifier and the payload, size, name and
\* description R had, and no trash document for R is left.
C3_DeleteRestoreRoundTrip ==
    \A R \in DOMAIN Files :
        \A d \in Handle(DB, DeleteRequest(Files[R].user_id, IdOf(R))) :
            /\ d.r.status = 200
            /\ R \notin DOMAIN d.db.Files
            /\ \A s \in Handle(d.db, RestoreRequest(Files[R].user_id, IdOf(R))) :
                   /\ s.r.status = 200
                   /\ R \in DOMAIN s.db.Files
                   /\ s.db.Files[R].file_data = Files[R].file_data
                   /\ s.db.Files[R].file_size = Files[R].file_size
                   /\ s.db.Files[R].filename = Files[R].filename
                   /\ s.db.Files[R].description = Files[R].description
                   /\ \A t \in DOMAIN s.db.TrashBin :
                          s.db.TrashBin[t].original_id # IdOf(R)

\* C3 witness: a record with content that went through the trash and back
\* under its identifier, and no trash document is left for it.
C3_Witness ==
    \E R \in DOMAIN Files :
        /\ "file_path" \in DOMAIN Files[R]
        /\ Files[R].file_data # <<>>
        /\ Files[R].description = "d"
        /\ \A t \in DOMAIN TrashBin : TrashBin[t].original_id # IdOf(R)

\* The member identifiers of a collection document.
Members(collection) ==
    {Get(collection, "files", <<>>)[i] : i \in 1..Len(Get(collection, "files", <<>>))}

\* C4: from every reachable state, for every trash document of a record R of
\* owner O, a purge of it by O that succeeds leaves R's identifier in the
\* member array of no collection of O.
C4_PurgeLeavesNoMember ==
    \A t \in DOMAIN TrashBin :
        TrashBin[t].type = "file" =>
            \A o \in Handle(DB, PurgeRequest(TrashBin[t].user_id, IdOf(t))) :
                o.r.status = 200 =>
                    \A c \in DOMAIN o.db.collections :
                        o.db.collections[c].owner_id = TrashBin[t].user_id
                            => TrashBin[t].original_id \notin Members(o.db.collections[c])

\* C5: in every reachable state every member identifier of an active
\* collection is the identifier of an active record of the collection's owner.
C5_MembersResolve ==
    \A c \in DOMAIN collections :
        \A m \in Members(collections[c]) :
            /\ ValidId(m)
            /\ ObjectIdOf(m) \in DOMAIN Files
            /\ Files[ObjectIdOf(m)].user_id = collections[c].owner_id

\* C6: from every reachable state with no request in flight, for every trash
\* document of a record whose original identifier is the _id of an active
\* record, a restore of it by its owner succeeds, inserts the record under
\* an identifier not in use before, and removes the trash document.
C6_OccupiedRestoreMintsId ==
    (\A p \in Slots : Free(p)) =>
        \A t \in DOMAIN TrashBin :
            (/\ TrashBin[t].type = "file"
             /\ ObjectIdOf(TrashBin[t].original_id) \in DOMAIN Files)
                => \A o \in Handle(DB, RestoreRequest(TrashBin[t].user_id,
                                                      TrashBin[t].original_id)) :
                       /\ o.r.status = 200
                       /\ o.r.wrote \in DOMAIN o.db.Files \ DOMAIN Files
                       /\ t \notin DOMAIN o.db.TrashBin

\* C7: a softDelete and a restore of one owner on one identifier, sent at
\* the same time, do not both report success, however their steps interleave.
C7_DeleteRestoreExclusive ==
    \A p, q \in Slots :
        ~(/\ Succeeded(p, "delete") /\ Succeeded(q, "restore")
          /\ req[p].user_id = req[q].user_id
          /\ req[p].arg = req[q].arg)

\* A record or collection is in the trash when a trash document of its type
\* carries its identifier as original_id.
InTrash(type, id) ==
    \E t \in DOMAIN TrashBin :
        /\ TrashBin[t].type = type
        /\ ValidId(TrashBin[t].original_id)
        /\ ObjectIdOf(TrashBin[t].original_id) = id
RecordPresent(id) == id \in DOMAIN Files \/ InTrash("file", id)
CollectionPresent(id) == id \in DOMAIN collections \/ InTrash("collection", id)

\* C8: at every step of a softDelete that found its entity and of a restore
\* that found its trash document, between their two writes included, and
\* once they have succeeded, the entity is in the active store or the trash.
C8_NeverInNeitherStore ==
    \A p \in Slots :
        LET r == req[p]
        IN  /\ r.pc \in {"sd_trash", "sd_delete"} => RecordPresent(ObjectIdOf(r.arg))
            /\ Succeeded(p, "delete") => RecordPresent(ObjectIdOf(r.arg))
            /\ r.pc = "rs_insert" => RecordPresent(ObjectIdOf(r.trash_file.original_id))
            /\ r.pc = "rs_untrash" => RecordPresent(r.inserted_id)
            /\ Succeeded(p, "restore") => RecordPresent(r.wrote)
            /\ r.pc \in {"cd_trash", "cd_delete"} => CollectionPresent(ObjectIdOf(r.arg))
            /\ Succeeded(p, "delete_collection") => CollectionPresent(ObjectIdOf(r.arg))
            /\ r.pc = "rc_insert"
                   => CollectionPresent(ObjectIdOf(r.trash_collection.original_id))
            /\ r.pc = "rc_untrash" => CollectionPresent(r.inserted_id)
            /\ Succeeded(p, "restore_collection") => CollectionPresent(r.wrote)

\* C8 witness: a softDelete and a restore of the same record are both
\* between their two writes: the record is active and in the trash.
C8_Witness ==
    \E p, q \in Slots :
        /\ req[p].pc = "sd_delete"
        /\ req[q].pc = "rs_untrash"
        /\ ObjectIdOf(req[p].arg) = req[q].inserted_id
        /\ req[q].inserted_id \in DOMAIN Files
        /\ req[p].trash_id \in DOMAIN TrashBin
        /\ req[q].trash_id \in DOMAIN TrashBin

\* C9: in every reachable state with no request in flight, no trash
\* document's original identifier is the _id of an active record or
\* collection.
C9_NoTrashedIdActive ==
    (\A p \in Slots : Free(p)) =>
        \A t \in DOMAIN TrashBin :
            ObjectIdOf(TrashBin[t].original_id) \notin DOMAIN Files \cup DOMAIN collections

\* name(k).ext as the claims write it, for k up to 9.
Numbered(name, k) ==
    NameWithoutExt(name)
        \o <<"(", <<"0", "1", "2", "3", "4", "5", "6", "7", "8", "9">>[k + 1], ")">>
        \o Ext(name)
\* The names of owner u's active records in database db.
OwnerNames(db, u) ==
    {db.Files[i].filename : i \in {x \in DOMAIN db.Files : db.Files[x].user_id = u}}
\* The numbers k for which owner u has an active record named name(k).ext.
NumbersUsed(db, u, name) == {k \in 1..9 : Numbered(name, k) \in OwnerNames(db, u)}
\* The name of the record an upload outcome created.
Created(o) == o.db.Files[o.r.wrote].filename

\* C10: from every reachable state, an upload with content creates a record
\* named as desired when the owner has no active record of that name, and
\* otherwise named name(k).ext with k greater than every number the owner's
\* active records already use with that name; and three successive uploads
\* of one name by an owner who has neither that name nor a numbered form of
\* it create name.ext, name(1).ext and name(2).ext, in that order.
C10_UploadNumbering ==
    \A u \in Owners, name \in UploadNames :
        LET up == UploadRequest(u, name, <<"x", "y">>, "d")
        IN  /\ \A o \in Handle(DB, up) :
                   /\ o.r.status = 200
                   /\ IF name \notin OwnerNames(DB, u)
                      THEN Created(o) = name
                      ELSE \E k \in 1..9 :
                               /\ Created(o) = Numbered(name, k)
                               /\ \A j \in NumbersUsed(DB, u, name) : j < k
            /\ (name \notin OwnerNames(DB, u) /\ NumbersUsed(DB, u, name) = {})
                   => \A o1 \in Handle(DB, up) :
                      \A o2 \in Handle(o1.db, up) :
                      \A o3 \in Handle(o2.db, up) :
                          /\ o3.db.Files[o1.r.wrote].filename = name
                          /\ o3.db.Files[o2.r.wrote].filename = Numbered(name, 1)
                          /\ o3.db.Files[o3.r.wrote].filename = Numbered(name, 2)
                          /\ o1.r.wrote < o2.r.wrote
                          /\ o2.r.wrote < o3.r.wrote

\* C10 witness: one owner's three uploads of a.txt are active as a.txt,
\* a(1).txt and a(2).txt, created in that order.
C10_Witness ==
    /\ DOMAIN Files = {1, 2, 3}
    /\ \A i \in 1..3 : Files[i].user_id = "o1"
    /\ Files[1].filename = <<"a", ".", "t", "x", "t">>
    /\ Files[2].filename = <<"a", "(", "1", ")", ".", "t", "x", "t">>
    /\ Files[3].filename = <<"a", "(", "2", ")", ".", "t", "x", "t">>

\* softDelete of active record R by its owner, then an upload by that owner
\* with R's name as the desired name: the outcomes of the upload.
ReuploadAfterDelete(R) ==
    UNION {Handle(d.db, UploadRequest(Files[R].user_id, Files[R].filename, <<"x", "y">>, "d")) :
              d \in Handle(DB, DeleteRequest(Files[R].user_id, IdOf(R)))}

\* C11 (as amended): from every reachable state, for every active record R
\* whose name n the upload's sanitising leaves as it is and which no other
\* active record of the owner carries, softDelete of R followed by an upload
\* of n by the owner succeeds and stores the new record under exactly n.
C11_TrashedNameReusable ==
    \A R \in DOMAIN Files :
        (/\ Files[R].filename \notin ActiveNames(DB, Files[R].user_id, {R})
         /\ secure_filename(Files[R].filename) = Files[R].filename)
            => \A u \in ReuploadAfterDelete(R) :
                   u.r.status = 200 /\ Created(u) = Files[R].filename

\* C11 (as stated): the same for every name n, sanitised or not.
C11_AnyTrashedNameReusable ==
    \A R \in DOMAIN Files :
        Files[R].filename \notin ActiveNames(DB, Files[R].user_id, {R})
            => \A u \in ReuploadAfterDelete(R) :
                   u.r.status = 200 /\ Created(u) = Files[R].filename

\* C11 witness: a record was trashed and a record created after it is active
\* under the same name for the same owner.
C11_Witness ==
    \E t \in DOMAIN TrashBin, f \in DOMAIN Files :
        /\ TrashBin[t].type = "file"
        /\ f > t
        /\ Files[f].user_id = TrashBin[t].user_id
        /\ Files[f].filename = TrashBin[t].filename
        /\ "file_path" \notin DOMAIN Files[f]

\* How many elements of a sequence equal x.
Occurrences(seq, x) == Cardinality({i \in 1..Len(seq) : seq[i] = x})

\* C12: from every reachable state, for every active collection C and active
\* record R of one owner O, addMember(C, O, R) succeeds, the listMembers(C, O)
\* after it succeeds and lists R exactly once, and a second addMember(C, O, R)
\* succeeds and leaves the member array of C and the stores as they were.
C12_AddMemberIdempotent ==
    \A C \in DOMAIN collections, R \in DOMAIN Files :
        Files[R].user_id = collections[C].owner_id =>
            LET O == collections[C].owner_id
                add == AddMemberRequest(O, IdOf(R), IdOf(C))
            IN  \A a \in Handle(DB, add) :
                    /\ a.r.status = 200
                    /\ \A l \in Handle(a.db, ListMembersRequest(O, IdOf(C))) :
                           l.r.status = 200 /\ Occurrences(l.r.body, IdOf(R)) = 1
                    /\ \A b \in Handle(a.db, add) :
                           /\ b.r.status = 200
                           /\ b.db.collections[C].files = a.db.collections[C].files
                           /\ b.db = a.db

\* C12 witness: an active collection lists an active record of its owner.
C12_Witness ==
    \E C \in DOMAIN collections, R \in DOMAIN Files :
        /\ Files[R].user_id = collections[C].owner_id
        /\ "files" \in DOMAIN collections[C]
        /\ Occurrences(collections[C].files, IdOf(R)) = 1

\* The stored limit of user u in database db.
Limit(db, u) == db.Users[u].storage_limit
\* The amount the claims give for an increase: GB and TB by their names in
\* either case, every other unit as MB.
Normalized(a, unit) ==
    CASE unit \in {<<"G", "B">>, <<"g", "b">>} -> a * 1024
      [] unit = <<"T", "B">> -> a * 1024 * 1024
      [] OTHER -> a
\* The databases after increase(u, a, unit) made from database db.
AfterIncrease(db, u, a, unit) ==
    {o.db : o \in Handle(db, IncreaseRequest(u, a, unit))}

\* C13: from every reachable state, for every existing user, two increases
\* made one after the other leave the limit at the limit before plus the sum
\* of the two normalized amounts, in either order; two increases in one unit
\* leave what one increase of the summed amount leaves; and 1 GB followed by
\* 1024 MB leaves what a single 2 GB leaves.
C13_IncreasesAddUp ==
    \A u \in DOMAIN Users :
        /\ \A a1 \in Amounts, a2 \in Amounts, u1 \in Units, u2 \in Units :
               /\ \A d1 \in AfterIncrease(DB, u, a1, u1) :
                  \A d2 \in AfterIncrease(d1, u, a2, u2) :
                      Limit(d2, u) = Limit(DB, u) + Normalized(a1, u1) + Normalized(a2, u2)
               /\ {Limit(d2, u) : d2 \in UNION {AfterIncrease(d1, u, a2, u2) :
                                                  d1 \in AfterIncrease(DB, u, a1, u1)}}
                      = {Limit(d2, u) : d2 \in UNION {AfterIncrease(d1, u, a1, u1) :
                                                        d1 \in AfterIncrease(DB, u, a2, u2)}}
               /\ {Limit(d2, u) : d2 \in UNION {AfterIncrease(d1, u, a2, u1) :
                                                  d1 \in AfterIncrease(DB, u, a1, u1)}}
                      = {Limit(d, u) : d \in AfterIncrease(DB, u, a1 + a2, u1)}
        /\ {Limit(d2, u) : d2 \in UNION {AfterIncrease(d1, u, 1024, <<"M", "B">>) :
                                           d1 \in AfterIncrease(DB, u, 1, <<"G", "B">>)}}
               = {Limit(d, u) : d \in AfterIncrease(DB, u, 2, <<"G", "B">>)}

\* C13 witness: a user's limit stands at the default plus 2 GB.
C13_Witness ==
    \E u \in DOMAIN Users : Users[u].storage_limit = 24576 + 2048

\* C14: from every reachable state, for every existing user, an increase
\* succeeds and adds to the stored limit exactly a * 1024 for GB,
\* a * 1024 * 1024 for TB, and a for MB and for an unknown unit, and leaves
\* every other user's limit as it was.
C14_IncreaseNormalizes ==
    \A u \in DOMAIN Users, a \in Amounts, unit \in Units :
        \A o \in Handle(DB, IncreaseRequest(u, a, unit)) :
            /\ o.r.body = TRUE
            /\ DOMAIN o.db.Users = DOMAIN Users
            /\ Limit(o.db, u) - Limit(DB, u) = Normalized(a, unit)
            /\ \A v \in DOMAIN Users \ {u} : Limit(o.db, v) = Limit(DB, v)

\* C14 witness: a user's limit has grown over the default.
C14_Witness ==
    \E u \in DOMAIN Users : Users[u].storage_limit > 24576

\* C15: from every reachable state, the trash document a softDelete of an
\* active record writes holds every field of the record with the value the
\* record has (name, size, kind, payload, description, public-sharing token
\* and its expiry among them), the type tag "file", the record's identifier
\* as original_id and the owner.
C15_TrashCopiesEveryAttribute ==
    \A R \in DOMAIN Files :
        \A d \in Handle(DB, DeleteRequest(Files[R].user_id, IdOf(R))) :
            LET trash_item == d.db.TrashBin[d.r.wrote]
            IN  /\ d.r.status = 200
                /\ \A field \in DOMAIN Files[R] :
                       /\ field \in DOMAIN trash_item
                       /\ trash_item[field] = Files[R][field]
                /\ trash_item.type = "file"
                /\ trash_item.original_id = IdOf(R)
                /\ trash_item.user_id = Files[R].user_id

\* The names a rename request may carry.
RenameInputs == UploadNames \cup {<<"b", ".", "t", "x", "t">>}

\* The name FileDetail.put looks for and would store: the request's name
\* trimmed, made safe, and given the record's extension when it has none.
RenameTarget(R, raw) == WithOldExtension(secure_filename(Strip(raw)), Files[R].filename)

\* The suggestion for a name among the other active names of the owner of R.
RenameSuggestion(R, name) ==
    SuggestedName(NameWithoutExt(name), Ext(name),
        {n \in ActiveNames(DB, Files[R].user_id, {R}) :
             MatchesSimilar(n, NameWithoutExt(name), Ext(name))})

\* What a rename without force has to do on a collision: answer 409 with the
\* suggested name and leave every store as it was.
RenameRefused(R, raw) ==
    \A o \in Handle(DB, RenameRequest(Files[R].user_id, IdOf(R), raw, FALSE)) :
        /\ o.r.status = 409
        /\ o.r.body = RenameSuggestion(R, RenameTarget(R, raw))
        /\ o.db = DB

\* C16 (amended): a rename without force, when another active record of the
\* owner already has the name the rename would store (the new name made safe
\* and given the record's old extension when it has none), reports the
\* collision with the suggested name and leaves every record unchanged.
C16_RenameCollisionRefused ==
    \A R \in DOMAIN Files : \A raw \in RenameInputs :
        RenameTarget(R, raw) \in ActiveNames(DB, Files[R].user_id, {R})
            => RenameRefused(R, raw)

\* C16 as stated: a rename without force, when another active record of the
\* owner already has the new name as the request gives it, reports the
\* collision with the suggested name and leaves every record unchanged.
C16_AnyRenameCollisionRefused ==
    \A R \in DOMAIN Files : \A raw \in RenameInputs :
        raw \in ActiveNames(DB, Files[R].user_id, {R})
            => RenameRefused(R, raw)

\* A record whose rename without force has just been refused with 409.
C16_Witness ==
    \E R \in DOMAIN Files : \E raw \in RenameInputs :
        /\ RenameTarget(R, raw) \in ActiveNames(DB, Files[R].user_id, {R})
        /\ \E o \in Handle(DB, RenameRequest(Files[R].user_id, IdOf(R), raw, FALSE)) :
               o.r.status = 409 /\ o.db = DB

\* Names that are empty after trimming.
BlankNames == {<<>>, <<" ">>, <<" ", " ">>}

\* C17: a create (of a record or of a collection) whose name is empty after
\* trimming is refused as invalid input (400) and inserts nothing.
C17_BlankNameRefused ==
    \A u \in Owners : \A raw \in BlankNames :
        /\ \A o \in Handle(DB, CreateCollectionRequest(u, raw)) :
               o.r.status = 400 /\ o.db = DB
        /\ \A o \in Handle(DB, UploadRequest(u, raw, <<"x", "y">>, "d")) :
               o.r.status = 400 /\ o.db = DB

\* The requests that carry the malformed identifier, one of every operation
\* that takes an identifier.
MalformedRequests ==
    UNION {{RenameRequest(u, BadId, NameB, FALSE), DeleteRequest(u, BadId),
            ShareRequest(u, BadId, 7), ListMembersRequest(u, BadId),
            DeleteCollectionRequest(u, BadId), RestoreRequest(u, BadId),
            RestoreCollectionRequest(u, BadId), PurgeRequest(u, BadId)}
           \cup {AddMemberRequest(u, BadId, id) : id \in IdStrings}
           \cup {AddMemberRequest(u, id, BadId) : id \in IdStrings} : u \in Owners}

\* C18: every operation given a malformed identifier answers that the
\* identifier is invalid (400) and leaves every store as it was.
C18_MalformedIdRefused ==
    \A r \in MalformedRequests :
        \A o \in Handle(DB, r) : o.r.status = 400 /\ o.db = DB

\* C19: once a purge has reported success, the record the purged trash
\* document stood for is neither active nor in the trash, and, with no
\* request in flight, a restore of it and a second purge answer 404.
C19_PurgedIsTerminal ==
    \A p \in Slots :
        (Succeeded(p, "purge") /\ req[p].trash_item.type = "file") =>
            LET original_id == req[p].trash_item.original_id
            IN  /\ ObjectIdOf(original_id) \notin DOMAIN Files
                /\ ~InTrash("file", ObjectIdOf(original_id))
                /\ (\A q \in Slots : Free(q)) =>
                       /\ \A o \in Handle(DB, RestoreRequest(req[p].user_id, original_id)) :
                              o.r.status = 404
                       /\ \A o \in Handle(DB, PurgeRequest(req[p].user_id, req[p].arg)) :
                              o.r.status = 404

\* What database db holds for owner B: B's records, collections, trash
\* documents and account.
Restricted(coll, field, B) ==
    [id \in {x \in DOMAIN coll : coll[x][field] = B} |-> coll[id]]
OwnedBy(db, B) ==
    [Files |-> Restricted(db.Files, "user_id", B),
     collections |-> Restricted(db.collections, "owner_id", B),
     TrashBin |-> Restricted(db.TrashBin, "user_id", B),
     Users |-> [u \in DOMAIN db.Users \cap {B} |-> db.Users[u]]]

\* Every request owner A may send.
RequestsOf(A) ==
    {r \in UploadRequests \cup RenameRequests \cup DeleteRequests \cup RestoreRequests
            \cup PurgeRequests \cup ShareRequests \cup CreateCollectionRequests
            \cup AddMemberRequests \cup ListMembersRequests
            \cup DeleteCollectionRequests \cup RestoreCollectionRequests
            \cup CreateUserRequests \cup IncreaseRequests : r.user_id = A}

RestoreMoves(p) ==
    /\ ~Free(p)
    /\ req[p].op \in {"restore", "restore_collection"}
    /\ req'[p] # req[p]

\* C21: no step of a restore (of a record or of a collection) changes or
\* removes a document already in Files or collections; a restore whose
\* original identifier is occupied leaves the occupant as it was.
C21_RestoreKeepsOccupant ==
    [][\A p \in Slots :
          RestoreMoves(p) =>
              /\ \A id \in DOMAIN Files :
                     id \in DOMAIN Files' /\ Files'[id] = Files[id]
              /\ \A id \in DOMAIN collections :
                     id \in DOMAIN collections' /\ collections'[id] = collections[id]]_vars

\* A restore has ended on an occupied identifier while the occupant, renamed
\* since, differs from the trash document the restore read.
C21_Witness ==
    \E p \in Slots :
        /\ req[p].pc = "done" /\ req[p].op = "restore"
        /\ req[p].status = 500 /\ req[p].body = "DuplicateKeyError"
        /\ \E t \in DOMAIN TrashBin :
               /\ TrashBin[t].type = "file"
               /\ ObjectIdOf(TrashBin[t].original_id) \in DOMAIN Files
               /\ Files[ObjectIdOf(TrashBin[t].original_id)].filename # TrashBin[t].filename

\* Desired names of uploads: the plain ones and a numbered one, as a client
\* sends back a name the store gave out.
DesiredNames == UploadNames \cup {Numbered(NameB, 1)}

\* The resolver's suggestion for name among owner u's active names.
UploadSuggestion(u, name) ==
    SuggestedName(NameWithoutExt(name), Ext(name),
        {n \in OwnerNames(DB, u) : MatchesSimilar(n, NameWithoutExt(name), Ext(name))})

\* Outcome o of an upload has answered 200 and has inserted exactly one
\* record, under an identifier no document had, leaving the others alone.
InsertedOne(o) ==
    /\ o.r.status = 200
    /\ o.r.wrote \notin DOMAIN Files \cup DOMAIN collections \cup DOMAIN TrashBin
    /\ DOMAIN o.db.Files = DOMAIN Files \cup {o.r.wrote}
    /\ \A id \in DOMAIN Files : o.db.Files[id] = Files[id]

\* C22 (amended): an upload with content never reports a collision: it
\* inserts exactly one new record under a fresh identifier, named the
\* sanitised desired name when no active record of the owner has that name
\* and the resolver's suggestion for the sanitised name otherwise.
C22_UploadSilent ==
    \A u \in Owners : \A raw \in DesiredNames :
        \A o \in Handle(DB, UploadRequest(u, raw, <<"x", "y">>, "d")) :
            /\ InsertedOne(o)
            /\ Created(o) = IF secure_filename(raw) \notin OwnerNames(DB, u)
                             THEN secure_filename(raw)
                             ELSE UploadSuggestion(u, secure_filename(raw))

\* C22 as stated: an upload with content never reports a collision: it
\* inserts exactly one new record under a fresh identifier, named the
\* desired name when no active record of the owner has it and the
\* resolver's suggestion otherwise.
C22_UploadSilentAnyName ==
    \A u \in Owners : \A raw \in DesiredNames :
        \A o \in Handle(DB, UploadRequest(u, raw, <<"x", "y">>, "d")) :
            /\ InsertedOne(o)
            /\ Created(o) = IF raw \notin OwnerNames(DB, u)
                             THEN raw
                             ELSE UploadSuggestion(u, raw)

\* An owner holding b and b(1) whose upload of b has been stored as b(2).
C22_Witness ==
    \E u \in Owners :
        /\ {NameB, Numbered(NameB, 1)} \subseteq OwnerNames(DB, u)
        /\ \E o \in Handle(DB, UploadRequest(u, NameB, <<"x", "y">>, "d")) :
               InsertedOne(o) /\ Created(o) = Numbered(NameB, 2)

\* The largest k for which another active record of R's owner is named
\* name(k).ext, 0 when there is none.
LargestNumber(R, name) ==
    LET used == {k \in 1..9 : Numbered(name, k) \in ActiveNames(DB, Files[R].user_id, {R})}
    IN  IF used = {} THEN 0 ELSE CHOOSE k \in used : \A j \in used : j <= k

\* A forced rename of R asked with raw ends with R named name(N+1).ext, a
\* name no other active record of the owner has.
RenamedToNext(R, raw, name) ==
    \A o \in Handle(DB, RenameRequest(Files[R].user_id, IdOf(R), raw, TRUE)) :
        /\ o.r.status = 200
        /\ o.db.Files[R].filename = Numbered(name, LargestNumber(R, name) + 1)
        /\ o.db.Files[R].filename \notin ActiveNames(o.db, Files[R].user_id, {R})

\* C23 (amended): a rename with force, when another active record of the
\* owner has the name the rename would store (the new name made safe and
\* given the record's old extension when it has none), renames the record to
\* that name numbered N+1, N the largest number the owner's other active
\* records use with it, and no other active record of the owner has the
\* resulting name.
C23_ForcedRenameNumbers ==
    \A R \in DOMAIN Files : \A raw \in RenameInputs :
        RenameTarget(R, raw) \in ActiveNames(DB, Files[R].user_id, {R})
            => RenamedToNext(R, raw, RenameTarget(R, raw))

\* C23 as stated: a rename with force onto a name, as the request gives it,
\* that another active record of the owner has renames the record to that
\* name numbered N+1, and no other active record of the owner has the
\* resulting name.
C23_ForcedRenameNumbersAnyName ==
    \A R \in DOMAIN Files : \A raw \in RenameInputs :
        raw \in ActiveNames(DB, Files[R].user_id, {R})
            => RenamedToNext(R, raw, raw)

\* A record b(1) whose forced rename onto b, held by another record of the
\* owner, has kept it b(1): the record's own number does not count.
C23_Witness ==
    \E R \in DOMAIN Files :
        /\ Files[R].filename = Numbered(NameB, 1)
        /\ NameB \in ActiveNames(DB, Files[R].user_id, {R})
        /\ \E o \in Handle(DB, RenameRequest(Files[R].user_id, IdOf(R), NameB, TRUE)) :
               o.r.status = 200 /\ o.db.Files[R].filename = Numbered(NameB, 1)

\* Well-formed identifiers a client may send: those minted, and one that
\* names nothing.
WellFormedIds == MintedIds \cup {LowerId(nextId)}

\* Owner u has no active record (collection) under identifier id.
NoRecordOf(u, id) ==
    ObjectIdOf(id) \notin DOMAIN Files \/ Files[ObjectIdOf(id)].user_id # u
NoCollectionOf(u, id) ==
    ObjectIdOf(id) \notin DOMAIN collections \/ collections[ObjectIdOf(id)].owner_id # u
\* Owner u has no trash document of the type for id, neither by its original
\* identifier nor by its own.
NoTrashOf(u, id, type) ==
    \A t \in DOMAIN TrashBin :
        (TrashBin[t].user_id = u /\ TrashBin[t].type = type)
            => (TrashBin[t].original_id # id /\ t # ObjectIdOf(id))

\* Every outcome of request r is a 404 or a 403 that wrote nothing.
RefusedUnchanged(r) ==
    \A o \in Handle(DB, r) : o.r.status \in {404, 403} /\ o.db = DB

\* C24: a softDelete or rename of an identifier under which the owner has no
\* active entity, and a restore or purge of an identifier for which the owner
\* has no trash document, answer 404 or 403 and leave Files, collections
\* (with their member lists) and TrashBin unchanged.
C24_MissingEntityRefused ==
    \A u \in Owners : \A id \in WellFormedIds :
        /\ NoRecordOf(u, id) =>
               /\ RefusedUnchanged(DeleteRequest(u, id))
               /\ \A force \in BOOLEAN : RefusedUnchanged(RenameRequest(u, id, NameB, force))
        /\ NoCollectionOf(u, id) => RefusedUnchanged(DeleteCollectionRequest(u, id))
        /\ NoTrashOf(u, id, "file") => RefusedUnchanged(RestoreRequest(u, id))
        /\ NoTrashOf(u, id, "collection") => RefusedUnchanged(RestoreCollectionRequest(u, id))
        /\ (NoTrashOf(u, id, "file") /\ NoTrashOf(u, id, "collection"))
               => RefusedUnchanged(PurgeRequest(u, id))

\* An owner's softDelete of another owner's active record has been answered
\* 403, and the same owner's restore of the other's trashed record 404.
C24_Witness ==
    \E u \in Owners : \E id, gone \in MintedIds :
        /\ ObjectIdOf(id) \in DOMAIN Files /\ Files[ObjectIdOf(id)].user_id # u
        /\ \A o \in Handle(DB, DeleteRequest(u, id)) : o.r.status = 403 /\ o.db = DB
        /\ \E t \in DOMAIN TrashBin :
               TrashBin[t].original_id = gone /\ TrashBin[t].user_id # u
        /\ \A o \in Handle(DB, RestoreRequest(u, gone)) : o.r.status = 404 /\ o.db = DB

\* The trash documents of owner u and of the type the claim's rule selects
\* for x: those whose original identifier is x, and only when there is none
\* the one whose own identifier is x.
SelectedFor(u, x, type) ==
    LET of == {t \in DOMAIN TrashBin : TrashBin[t].user_id = u /\ TrashBin[t].type = type}
        byOriginal == {t \in of : TrashBin[t].original_id = x}
        byOwn == {t \in of : t = ObjectIdOf(x)}
    IN  IF byOriginal # {} THEN byOriginal ELSE byOwn

\* Outcome o of a restore has taken trash document t: t is gone from the
\* trash, the others are left, and the entity written carries t's name.
Took(o, t, active, field) ==
    /\ o.r.status = 200
    /\ o.db.TrashBin = Deleted(TrashBin, t)
    /\ o.r.wrote \in DOMAIN o.db[active]
    /\ o.db[active][o.r.wrote][field] = TrashBin[t][field]

\* C25: a restore of x by owner u takes a trash document of u and of the
\* requested type whose original identifier is x; when there is none it
\* takes the one whose own identifier is x; when there is neither it answers
\* 404 and takes nothing.
C25_RestoreLookupOrder ==
    \A u \in Owners : \A x \in WellFormedIds :
        /\ \A o \in Handle(DB, RestoreRequest(u, x)) :
               IF SelectedFor(u, x, "file") = {}
               THEN o.r.status = 404 /\ o.db = DB
               ELSE \E t \in SelectedFor(u, x, "file") : Took(o, t, "Files", "filename")
        /\ \A o \in Handle(DB, RestoreCollectionRequest(u, x)) :
               IF SelectedFor(u, x, "collection") = {}
               THEN o.r.status = 404 /\ o.db = DB
               ELSE \E t \in SelectedFor(u, x, "collection") :
                        Took(o, t, "collections", "name")

\* A trashed record restored through the identifier of its trash document:
\* no trash document of the owner has that identifier as its original one.
C25_Witness ==
    \E t \in DOMAIN TrashBin :
        /\ TrashBin[t].type = "file"
        /\ \A t2 \in DOMAIN TrashBin : TrashBin[t2].original_id # StrOfObjectId(t)
        /\ \E o \in Handle(DB, RestoreRequest(TrashBin[t].user_id, StrOfObjectId(t))) :
               Took(o, t, "Files", "filename")

\* A purge by the owner of trash document t, asked with identifier id,
\* answers 200 and deletes t and nothing else.
Purged(t, id) ==
    \A o \in Handle(DB, PurgeRequest(TrashBin[t].user_id, id)) :
        /\ o.r.status = 200
        /\ o.db.TrashBin = Deleted(TrashBin, t)
        /\ o.db.Files = Files /\ o.db.collections = collections

\* C26 (amended): a purge by its owner of a trashed entity, asked with the
\* identifier of the entity's trash document, succeeds and deletes that
\* trash document.
C26_PurgeByTrashId ==
    \A t \in DOMAIN TrashBin : Purged(t, StrOfObjectId(t))

\* C26 as stated: a purge by its owner of a trashed entity, asked with the
\* identifier the entity had while active, succeeds and deletes the entity's
\* trash document.
C26_PurgeByOriginalId ==
    \A t \in DOMAIN TrashBin : Purged(t, TrashBin[t].original_id)

\* A trashed record purged through the identifier of its trash document,
\* while another active record of the owner stays.
C26_Witness ==
    \E t \in DOMAIN TrashBin :
        /\ TrashBin[t].type = "file"
        /\ \E id \in DOMAIN Files : Files[id].user_id = TrashBin[t].user_id
        /\ Purged(t, StrOfObjectId(t))

\* The trash documents in database db of the type whose original identifier
\* is id.
TrashEntriesFor(db, type, id) ==
    {t \in DOMAIN db.TrashBin :
        db.TrashBin[t].type = type /\ db.TrashBin[t].original_id = id}

\* Slot p holds a handler that has stopped at step pc, the only request in
\* flight, with one trash document for its identifier.
StoppedAt(p, pc, type) ==
    /\ req[p].pc = pc
    /\ \A q \in Slots \ {p} : Free(q)
    /\ Cardinality(TrashEntriesFor(DB, type, req[p].arg)) = 1

\* C27: when a softDelete has stopped after writing the trash document and
\* before deleting the active entity, a softDelete run again for the same
\* identifier ends with the entity out of the active store and exactly one
\* trash document for it.
C27_SoftDeleteRerun ==
    \A p \in Slots :
        /\ StoppedAt(p, "sd_delete", "file") =>
               \A o \in Handle(DB, DeleteRequest(req[p].user_id, req[p].arg)) :
                   /\ ObjectIdOf(req[p].arg) \notin DOMAIN o.db.Files
                   /\ Cardinality(TrashEntriesFor(o.db, "file", req[p].arg)) = 1
        /\ StoppedAt(p, "cd_delete", "collection") =>
               \A o \in Handle(DB, DeleteCollectionRequest(req[p].user_id, req[p].arg)) :
                   /\ ObjectIdOf(req[p].arg) \notin DOMAIN o.db.collections
                   /\ Cardinality(TrashEntriesFor(o.db, "collection", req[p].arg)) = 1

\* C28: when a restore has stopped after inserting the entity and before
\* deleting the trash document, a restore run again for the same identifier
\* answers 200 and ends with the entity active and no trash document for it.
C28_RestoreRerun ==
    \A p \in Slots :
        /\ StoppedAt(p, "rs_untrash", "file") =>
               \A o \in Handle(DB, RestoreRequest(req[p].user_id, req[p].arg)) :
                   /\ o.r.status = 200
                   /\ req[p].inserted_id \in DOMAIN o.db.Files
                   /\ TrashEntriesFor(o.db, "file", req[p].arg) = {}
        /\ StoppedAt(p, "rc_untrash", "collection") =>
               \A o \in Handle(DB, RestoreCollectionRequest(req[p].user_id, req[p].arg)) :
                   /\ o.r.status = 200
                   /\ req[p].inserted_id \in DOMAIN o.db.collections
                   /\ TrashEntriesFor(o.db, "collection", req[p].arg) = {}

\* C29: when two increases for one owner, sent at the same time to an account
\* at its initial limit, have both returned True, the stored limit is the
\* initial limit plus both amounts, however their steps interleaved.
C29_ConcurrentIncreasesAddUp ==
    \A p, q \in Slots :
        (/\ p # q
         /\ req[p].pc = "done" /\ req[p].op = "increase" /\ req[p].body = TRUE
         /\ req[q].pc = "done" /\ req[q].op = "increase" /\ req[q].body = TRUE
         /\ req[p].user_id = req[q].user_id)
            => Users[req[p].user_id].storage_limit
                   = DefaultStorageLimit + req[p].arg + req[q].arg

\* C30: in every reachable state no collection's member array names the same
\* record identifier twice.
C30_NoDuplicateMembers ==
    \A c \in DOMAIN collections :
        LET files == Get(collections[c], "files", <<>>)
        IN  \A i, j \in 1..Len(files) :
                i # j => ObjectIdOf(files[i]) # ObjectIdOf(files[j])

\* ------------------------------------------------------------------- C31
\* The requests on records and collections.
RecordAndCollectionRequests ==
    UploadRequests \cup RenameRequests \cup DeleteRequests \cup RestoreRequests
    \cup PurgeRequests \cup ShareRequests \cup CreateCollectionRequests
    \cup RenameCollectionRequests \cup AddMemberRequests \cup RemoveMemberRequests
    \cup DeleteCollectionRequests \cup RestoreCollectionRequests

\* C31: a new account starts with the default storage limit and leaves the
\* other accounts as they were, and no request on a record or a collection
\* changes any account's stored limit.
C31_LimitOnlyIncreased ==
    /\ \A r \in CreateUserRequests : \A o \in Handle(DB, r) :
           /\ r.user_id \notin DOMAIN Users
                  => o.db.Users[r.user_id].storage_limit = DefaultStorageLimit
           /\ \A u \in DOMAIN Users : o.db.Users[u] = Users[u]
    /\ \A r \in RecordAndCollectionRequests : \A o \in Handle(DB, r) :
           o.db.Users = Users

\* An account whose limit was increased, while the owner has a record in a
\* collection and a document in the trash.
C31_Witness ==
    \E u \in DOMAIN Users :
        /\ Users[u].storage_limit > DefaultStorageLimit
        /\ \E c \in DOMAIN collections :
               /\ collections[c].owner_id = u
               /\ Members(collections[c]) # {}
        /\ \E t \in DOMAIN TrashBin : TrashBin[t].user_id = u

\* ------------------------------------------------------------------- C32
\* C32: in every reachable state no two active collections of one owner have
\* the same name.
C32_UniqueCollectionNames ==
    \A c1, c2 \in DOMAIN collections :
        /\ c1 # c2
        /\ collections[c1].owner_id = collections[c2].owner_id
        => collections[c1].name # collections[c2].name

\* ------------------------------------------------------------------- C33
\* C33: from every reachable state, for every active collection C of owner O,
\* the soft-delete of C by O followed by the restore of C by O both succeed
\* and give an active collection with C's identifier, owner, name and
\* members, and no trash document for C is left.
C33_CollectionRoundTrip ==
    \A C \in DOMAIN collections :
        LET O == collections[C].owner_id
        IN  \A d \in Handle(DB, DeleteCollectionRequest(O, IdOf(C))) :
                /\ d.r.status = 200
                /\ C \notin DOMAIN d.db.collections
                /\ \A s \in Handle(d.db, RestoreCollectionRequest(O, IdOf(C))) :
                       /\ s.r.status = 200
                       /\ C \in DOMAIN s.db.collections
                       /\ s.db.collections[C].owner_id = O
                       /\ s.db.collections[C].name = collections[C].name
                       /\ Members(s.db.collections[C]) = Members(collections[C])
                       /\ \A t \in DOMAIN s.db.TrashBin :
                              s.db.TrashBin[t].original_id # IdOf(C)

\* C33 witness: a collection with an active member that never left the
\* active store, after a trash document was written and removed again.
C33_Witness ==
    \E C \in DOMAIN collections : \E R \in DOMAIN Files :
        /\ IdOf(R) \in Members(collections[C])
        /\ "file_path" \notin DOMAIN Files[R]
        /\ TrashBin = <<>>
        /\ nextId > C + 1 /\ nextId > R + 1

\* ------------------------------------------------------------------- C34
\* C34: in every reachable state, requests in flight included, no two trash
\* documents carry the same original identifier.
C34_OneTrashEntryPerOriginal ==
    \A t1, t2 \in DOMAIN TrashBin :
        t1 # t2 =>
            ObjectIdOf(TrashBin[t1].original_id) # ObjectIdOf(TrashBin[t2].original_id)

\* ------------------------------------------------------------------- C35
\* Two requests in flight together, run to their responses: every order in
\* which their steps can interleave.
RECURSIVE Interleaved(_, _, _)
Interleaved(db, r1, r2) ==
    IF r1.pc = "done" /\ r2.pc = "done"
    THEN {[db |-> db, r1 |-> r1, r2 |-> r2]}
    ELSE (IF r1.pc = "done" THEN {}
          ELSE UNION {Interleaved(o.db, o.r, r2) : o \in StepOf(db, r1)})
         \cup
         (IF r2.pc = "done" THEN {}
          ELSE UNION {Interleaved(o.db, r1, o.r) : o \in StepOf(db, r2)})

\* The two ways a restore request can name trash document t.
NamesOf(t) == {TrashBin[t].original_id, IdOf(t)}

\* The restore request for a trash document of its type.
RestoreOf(t, x) ==
    IF TrashBin[t].type = "file" THEN RestoreRequest(TrashBin[t].user_id, x)
    ELSE RestoreCollectionRequest(TrashBin[t].user_id, x)

\* Exactly one of the two requests answered 200.
OneSucceeded(o) == (o.r1.status = 200) # (o.r2.status = 200)

\* C35: from every state reached by requests served one at a time, for every
\* trash document, two restore requests for it in flight together end, in
\* every interleaving, with exactly one of them answering 200 and with
\* exactly one document, under the original identifier, added to the active
\* store; nothing else is inserted.
C35_ConcurrentRestoresInsertOnce ==
    \A t \in DOMAIN TrashBin : \A x1 \in NamesOf(t), x2 \in NamesOf(t) :
        LET id == ObjectIdOf(TrashBin[t].original_id)
        IN  \A o \in Interleaved(DB, RestoreOf(t, x1), RestoreOf(t, x2)) :
                /\ OneSucceeded(o)
                /\ o.db.nextId = nextId
                /\ IF TrashBin[t].type = "file"
                   THEN /\ id \notin DOMAIN Files
                        /\ DOMAIN o.db.Files = DOMAIN Files \cup {id}
                        /\ \A f \in DOMAIN Files : o.db.Files[f] = Files[f]
                        /\ o.db.collections = collections
                   ELSE /\ id \notin DOMAIN collections
                        /\ DOMAIN o.db.collections = DOMAIN collections \cup {id}
                        /\ \A c \in DOMAIN collections :
                               o.db.collections[c] = collections[c]
                        /\ o.db.Files = Files

\* C35 witness: a trash document that two restores in flight together bring
\* back, with the second answering 500 in one interleaving and 404 in
\* another.
C35_Witness ==
    \E t \in DOMAIN TrashBin :
        \A status \in {404, 500} :
            \E o \in Interleaved(DB, RestoreOf(t, IdOf(t)), RestoreOf(t, IdOf(t))) :
                o.r1.status = 200 /\ o.r2.status = status

\* ------------------------------------------------------------------- C36
\* C36: from every state reached by requests served one at a time, for every
\* active record R of owner O, when a rename of R and a soft-delete of R by O
\* are in flight together and both answer 200, the trash document written
\* carries the name the rename answered with, and so does the record a
\* restore then brings back.
C36_RenameSurvivesSoftDelete ==
    \A R \in DOMAIN Files : \A raw \in RenameInputs, force \in BOOLEAN :
        LET O == Files[R].user_id
        IN  \A o \in Interleaved(DB, RenameRequest(O, IdOf(R), raw, force),
                                   DeleteRequest(O, IdOf(R))) :
                o.r1.status = 200 /\ o.r2.status = 200
                => /\ o.db.TrashBin[o.r2.wrote].filename = o.r1.body
                   /\ \A s \in Handle(o.db, RestoreRequest(O, IdOf(R))) :
                          s.r.status = 200 => s.db.Files[R].filename = o.r1.body

\* ------------------------------------------------------------------- C37
\* C37: from every reachable state, for every active collection C of owner O
\* and every member R of C, removeMember(C, O, R) leaves C without R,
\* whether R is active, in the trash or purged.
C37_RemoveMemberRemoves ==
    \A C \in DOMAIN collections : \A R \in Members(collections[C]) :
        \A o \in Handle(DB, RemoveMemberRequest(collections[C].owner_id, R, IdOf(C))) :
            /\ C \in DOMAIN o.db.collections
            /\ R \notin Members(o.db.collections[C])

\* ------------------------------------------------------------------- C38
\* The responses to a public download of identifier id with a token, `age`
\* days after the link was issued.
Downloads(db, id, token, age) == Handle(db, DownloadRequest(id, token, age))

\* C38: from every reachable state, (1) a public download answers 200 only
\* for an active record whose stored token is the one presented and whose
\* expiry has not passed; (2) after two links issued for a record by its
\* owner, only the token of the second one is accepted, and only up to its
\* expiry; (3) a share request by anyone else, and every upload, rename,
\* soft-delete, restore and purge, gives no active record a token or an
\* expiry it did not have.
C38_DownloadNeedsCurrentToken ==
    /\ \A r \in DownloadRequests : \A o \in Handle(DB, r) :
           o.r.status = 200
           => /\ ValidId(r.arg)
              /\ ObjectIdOf(r.arg) \in DOMAIN Files
              /\ Get(Files[ObjectIdOf(r.arg)], "public_access_token", "") = r.access_token
              /\ r.age <= Files[ObjectIdOf(r.arg)].token_expiration
    /\ \A R \in DOMAIN Files : \A d1 \in ExpirationDays, d2 \in ExpirationDays :
           \A s1 \in Handle(DB, ShareRequest(Files[R].user_id, IdOf(R), d1)) :
               \A s2 \in Handle(s1.db, ShareRequest(Files[R].user_id, IdOf(R), d2)) :
                   \A token \in Tokens, age \in Ages :
                       \A o \in Downloads(s2.db, IdOf(R), token, age) :
                           o.r.status = 200 <=> (token = s2.r.body /\ age <= d2)
    /\ \A r \in UploadRequests \cup RenameRequests \cup DeleteRequests
                 \cup RestoreRequests \cup PurgeRequests
                 \cup {x \in ShareRequests :
                          \/ ~ValidId(x.arg)
                          \/ ObjectIdOf(x.arg) \notin DOMAIN Files
                          \/ Files[ObjectIdOf(x.arg)].user_id # x.user_id} :
           \A o \in Handle(DB, r) : \A f \in DOMAIN o.db.Files :
               \A field \in {"public_access_token", "token_expiration"} :
                   field \in DOMAIN o.db.Files[f]
                   => /\ f \in DOMAIN Files
                      /\ field \in DOMAIN Files[f]
                      /\ o.db.Files[f][field] = Files[f][field]

\* C38 witness: a shared record whose token is accepted on the day of expiry
\* and refused the day after, another token refused for it, and a record in
\* the trash whose download answers 404.
C38_Witness ==
    /\ \E R \in DOMAIN Files :
           /\ "public_access_token" \in DOMAIN Files[R]
           /\ \A o \in Downloads(DB, IdOf(R), Files[R].public_access_token, 7) :
                  o.r.status = 200
           /\ \A o \in Downloads(DB, IdOf(R), Files[R].public_access_token, 8) :
                  o.r.status = 403
           /\ \E token \in Tokens : \A o \in Downloads(DB, IdOf(R), token, 7) :
                  o.r.status = 403
    /\ \E t \in DOMAIN TrashBin : \A token \in Tokens :
           \A o \in Downloads(DB, TrashBin[t].original_id, token, 7) : o.r.status = 404

\* ------------------------------------------------------------------- C39
\* The files of a batch that have a payload, in the order sent.
WithPayload(files) == SelectSeq(files, LAMBDA f : f.file_data # <<>>)

\* C39: from every reachable state, a batch upload reports one error for
\* each file whose payload is empty and inserts no record for it, and it
\* inserts one new record, with the file's payload, for each of the other
\* files of the batch, whatever their position; the response is 207 exactly
\* when a file was empty.
C39_EmptyFileSkipped ==
    \A r \in BatchUploadRequests : r.arg # <<>> =>
        \A o \in Handle(DB, r) :
            LET stored == WithPayload(r.arg)
                results == o.r.body.files
                errors == o.r.body.errors
                new == DOMAIN o.db.Files \ DOMAIN Files
            IN  /\ Len(errors) = Len(r.arg) - Len(stored)
                /\ \A i \in 1..Len(errors) : errors[i] = "Empty file"
                /\ o.r.status = (IF errors = <<>> THEN 200 ELSE 207)
                /\ Len(results) = Len(stored)
                /\ new = {ObjectIdOf(results[i].id) : i \in 1..Len(results)}
                /\ Cardinality(new) = Len(stored)
                /\ \A i \in 1..Len(results) :
                       LET doc == o.db.Files[ObjectIdOf(results[i].id)]
                       IN  /\ doc.file_data = stored[i].file_data
                           /\ doc.filename = results[i].filename
                           /\ doc.user_id = r.user_id
                /\ \A f \in DOMAIN Files : o.db.Files[f] = Files[f]

\* C39 witness: an owner with a record, for whom a batch of an empty file
\* followed by a file with a payload answers 207 and stores the second file.
C39_Witness ==
    \E u \in Owners :
        /\ \E f \in DOMAIN Files : Files[f].user_id = u
        /\ \E o \in Handle(DB, BatchUploadRequest(u,
                    <<[filename |-> NameB, file_data |-> <<>>],
                      [filename |-> NameB, file_data |-> <<"z">>]>>, "d")) :
               /\ o.r.status = 207
               /\ o.r.body.success_count = 1
               /\ \E f \in DOMAIN o.db.Files \ DOMAIN Files :
                      o.db.Files[f].file_data = <<"z">>

\* ------------------------------------------------------------------- C40
\* C40: in every reachable state the file_type of each active record is one
\* of image, video, document, other, and is the type get_file_type gives for
\* the record's current name.
C40_KindFollowsName ==
    \A R \in DOMAIN Files :
        /\ Files[R].file_type \in {"image", "video", "document", "other"}
        /\ Files[R].file_type = get_file_type(Files[R].filename)

====
